---- MODULE Spec2Model ----
(***************************************************************************)
(* Model of the allocation pipeline of ManagementDataAnalysis:             *)
(*   module_haihu.preprocess_haihu        (ratio table preprocessing)      *)
(*   module_haifu_keisan.execute_allocation (allocation engine)            *)
(*   the five normalizers of the source exports (module_suiihyou,          *)
(*   module_yoshinzandaka, module_motocho, module_MACROSSzaiko,            *)
(*   module_shiharaitegata)                                                *)
(*   app.main, from its first line to the written file                     *)
(*                                                                         *)
(* Strings of the source that are not ASCII are transliterated:            *)
(*   "zen_kyoutuu"          the location tag  zen-ten kyoutuu (store-wide) *)
(*   "basho_kyoutuu"        the location tag  basho kyoutuu (location)     *)
(*   "untenshihon(shisan)"  class2 working-capital (asset)                 *)
(*   "untenshihon(fusai)"   class2 working-capital (liability)             *)
(*   "koteishisan(shisan)"  class2 fixed-asset (asset)                     *)
(*   "koteishisan(fusai)"   class2 fixed-asset (liability)                 *)
(*   haifuritsu             the column of the global ratio                 *)
(*   basho_haifuritsu       the column of the per-location-group ratio     *)
(*   gyoumuryou             the column of the raw weight                   *)
(*   hizuke, code, kingaku  the columns date, department code, amount      *)
(*   kamoku_code, kamoku_mei  the columns account code, account name       *)
(*   bunrui1, bunrui2, bunrui3, basho  the class and location columns      *)
(* A date is written as the number YYYYMMDD.                               *)
(*                                                                         *)
(* Floating point numbers are modelled as exact extended rationals         *)
(* [n, d]: d > 0 a finite number n/d in lowest terms, <<1,0>> and <<-1,0>> *)
(* the two infinities, <<0,0>> NaN.  Division by zero therefore gives what *)
(* numpy gives (inf, -inf or NaN), never an error.                         *)
(***************************************************************************)
EXTENDS Integers, Sequences, FiniteSets, TLC

VARIABLES
    pc,                 \* position in main() / execute_allocation
    haihu_csv,          \* contents of the ratio file: [cols]
    df_haihu,           \* result of preprocess_haihu: [isNone, rows]
    merged_df,          \* the tagged records, row i has index label i
    classLoaded,        \* df_classification is not None (class columns exist)
    df_zen_kyoutuu,     \* partition location == zen_kyoutuu
    df_basho_kyoutuu,   \* partition location == basho_kyoutuu
    df_main_data,       \* the other records, without location / dept name
    allocation_results, \* list of emitted frames, flattened to rows
    all_basho_haifu_dfs,\* frames emitted by the anchor loop, flattened
    anchor_i,           \* index of the anchor the loop is at
    df_allocated,       \* what execute_allocation returned: [raised, rows]
    target_date,        \* the target period, the first day of a month
    run,                \* number of the call of execute_allocation under way
    df_allocated_run1,  \* what the first of two calls returned
    normalizer,         \* the normalizer that is called
    source_csv,         \* the source file it reads
    normalized,         \* what it returned
    inputs,             \* the source files and the two tables main() reads
    all_dataframes,     \* the frames the sources gave, in the order appended
    merged_all,         \* merged_df of main() with all its columns
    location_df,        \* what load_location_data returned
    final_df,           \* the sorted final frame
    written             \* combined_data.csv has been written

vars == <<pc, haihu_csv, df_haihu, merged_df, classLoaded, df_zen_kyoutuu,
          df_basho_kyoutuu, df_main_data, allocation_results,
          all_basho_haifu_dfs, anchor_i, df_allocated,
          target_date, run, df_allocated_run1,
          normalizer, source_csv, normalized,
          inputs, all_dataframes, merged_all, location_df, final_df, written>>

\* the state of a caller of execute_allocation that calls it twice
caller_vars == <<target_date, run, df_allocated_run1>>

\* the state of a call of a normalizer
normalizer_vars == <<normalizer, source_csv, normalized>>

\* no normalizer is called
NormalizerIdle ==
    /\ normalizer = ""
    /\ source_csv = <<>>
    /\ normalized = <<>>

\* the state of a run of main() from its first line
main_vars ==
    <<inputs, all_dataframes, merged_all, location_df, final_df, written>>

\* main() is not run from its first line
MainIdle ==
    /\ inputs = <<>>
    /\ all_dataframes = <<>>
    /\ merged_all = <<>>
    /\ location_df = <<>>
    /\ final_df = <<>>
    /\ written = FALSE

-----------------------------------------------------------------------------
(* Bounds of the model *)

MaxCols == 3
MaxRecs == 2

-----------------------------------------------------------------------------
(* Floating point values as extended rationals *)

Abs(x) == IF x < 0 THEN -x ELSE x

Sign(x) == IF x < 0 THEN -1 ELSE IF x > 0 THEN 1 ELSE 0

RECURSIVE GCD(_, _)
GCD(a, b) == IF b = 0 THEN a ELSE GCD(b, a % b)

\* n/d as a float; d may be 0 or negative
Rat(n, d) ==
    IF d = 0 THEN [n |-> Sign(n), d |-> 0]
    ELSE LET g == GCD(Abs(n), Abs(d))
             s == Sign(d)
         IN  [n |-> (s * n) \div g, d |-> (s * d) \div g]

NaN == [n |-> 0, d |-> 0]
Zero == [n |-> 0, d |-> 1]
One == [n |-> 1, d |-> 1]
Num(k) == [n |-> k, d |-> 1]

IsNaN(x) == x.n = 0 /\ x.d = 0
IsFinite(x) == x.d > 0

RAdd(a, b) ==
    IF IsNaN(a) \/ IsNaN(b) THEN NaN
    ELSE IF a.d = 0 /\ b.d = 0 THEN (IF a.n = b.n THEN a ELSE NaN)
    ELSE IF a.d = 0 THEN a
    ELSE IF b.d = 0 THEN b
    ELSE Rat(a.n * b.d + b.n * a.d, a.d * b.d)

RMul(a, b) ==
    IF IsNaN(a) \/ IsNaN(b) THEN NaN ELSE Rat(a.n * b.n, a.d * b.d)

\* float division: x/0 is inf or -inf, 0/0 is NaN
RDiv(a, b) ==
    IF IsNaN(a) \/ IsNaN(b) THEN NaN
    ELSE IF b.n < 0 THEN Rat(-(a.n * b.d), -(a.d * b.n))
    ELSE Rat(a.n * b.d, a.d * b.n)

\* Series.fillna(0)
fillna0(x) == IF IsNaN(x) THEN Zero ELSE x

\* Series.sum(): NaN entries are skipped, an empty sum is 0
RECURSIVE RSum(_)
RSum(s) ==
    IF s = <<>> THEN Zero
    ELSE IF IsNaN(Head(s)) THEN RSum(Tail(s))
    ELSE RAdd(Head(s), RSum(Tail(s)))

\* the column f of the rows of a frame
Column(rows, f) == [i \in 1..Len(rows) |-> rows[i][f]]

-----------------------------------------------------------------------------
(* Department codes: strings, kept as tuples of characters so that          *)
(* dept_code[:3] and str.startswith are computed, not looked up.            *)

H102200 == <<"H", "1", "0", "2", "2", "0", "0">>
H101100 == <<"H", "1", "0", "1", "1", "0", "0">>
H101210 == <<"H", "1", "0", "1", "2", "1", "0">>
H101310 == <<"H", "1", "0", "1", "3", "1", "0">>
H104100 == <<"H", "1", "0", "4", "1", "0", "0">>
H102100 == <<"H", "1", "0", "2", "1", "0", "0">>
H102120 == <<"H", "1", "0", "2", "1", "2", "0">>
S202100 == <<"S", "2", "0", "2", "1", "0", "0">>
S201100 == <<"S", "2", "0", "1", "1", "0", "0">>
S201200 == <<"S", "2", "0", "1", "2", "0", "0">>
O502100 == <<"O", "5", "0", "2", "1", "0", "0">>
O502200 == <<"O", "5", "0", "2", "2", "0", "0">>
O501100 == <<"O", "5", "0", "1", "1", "0", "0">>
O501200 == <<"O", "5", "0", "1", "2", "0", "0">>
F602100 == <<"F", "6", "0", "2", "1", "0", "0">>
F602200 == <<"F", "6", "0", "2", "2", "0", "0">>
F601100 == <<"F", "6", "0", "1", "1", "0", "0">>
F601200 == <<"F", "6", "0", "1", "2", "0", "0">>
H100100 == <<"H", "1", "0", "0", "1", "0", "0">>
S200100 == <<"S", "2", "0", "0", "1", "0", "0">>
O500100 == <<"O", "5", "0", "0", "1", "0", "0">>
F600100 == <<"F", "6", "0", "0", "1", "0", "0">>
A900000 == <<"A", "9", "0", "0", "0", "0", "0">>
X999999 == <<"X", "9", "9", "9", "9", "9", "9">>

\* group_map of preprocess_haihu: the 18 mapped department codes
\* (honten_tokyo = head office / Tokyo branch, then the three other branches)
group_map ==
    (H102200 :> "honten_tokyo")
    @@ (H101100 :> "honten_tokyo")
    @@ (H101210 :> "honten_tokyo")
    @@ (H101310 :> "honten_tokyo")
    @@ (H104100 :> "honten_tokyo")
    @@ (H102100 :> "honten_tokyo")
    @@ (H102120 :> "honten_tokyo")
    @@ (S202100 :> "sapporo")
    @@ (S201100 :> "sapporo")
    @@ (S201200 :> "sapporo")
    @@ (O502100 :> "osaka")
    @@ (O502200 :> "osaka")
    @@ (O501100 :> "osaka")
    @@ (O501200 :> "osaka")
    @@ (F602100 :> "fukuoka")
    @@ (F602200 :> "fukuoka")
    @@ (F601100 :> "fukuoka")
    @@ (F601200 :> "fukuoka")

-----------------------------------------------------------------------------
(* module_haihu.preprocess_haihu                                           *)
(*                                                                         *)
(* The ratio file is wide: one column per department (its header is the    *)
(* department code), and below the header the data rows.  A cell is text:  *)
(* [numeric, value], value being what the text parses to when numeric.     *)
(* haihu_csv = [cols |-> <<[code, cells]>>], every column with as many     *)
(* cells as the file has data rows.                                        *)

None == [isNone |-> TRUE, rows |-> <<>>]
Frame(rows) == [isNone |-> FALSE, rows |-> rows]

\* DataFrame.empty: no column or no row
csv_empty(csv) == csv.cols = <<>> \/ csv.cols[1].cells = <<>>

\* pd.to_numeric(errors='coerce'): text that is no number becomes NaN
to_numeric(cell) == IF cell.numeric THEN Num(cell.value) ELSE NaN

\* df.melt: column by column, one row per cell; then the weight made numeric
RECURSIVE melt(_)
melt(cols) ==
    IF cols = <<>> THEN <<>>
    ELSE [r \in 1..Len(cols[1].cells) |->
             [code |-> cols[1].code,
              gyoumuryou |-> fillna0(to_numeric(cols[1].cells[r]))]]
         \o melt(Tail(cols))

\* df_melted[df_melted[code].isin(group_map.keys())]
isin_group_map(r) == r.code \in DOMAIN group_map

filter_group_map(rows) == SelectSeq(rows, isin_group_map)

total_business_volume(rows) == RSum(Column(rows, "gyoumuryou"))

\* faulty variant: the weight is not divided by the total
haifuritsu_undivided(rows, r) == r.gyoumuryou

\* faulty variant: the total is not tested for 0 before the division
haifuritsu_unguarded(rows, r) ==
    RDiv(r.gyoumuryou, total_business_volume(rows))

\* the column haifuritsu: 0.0 when the total is 0, else weight / total
haifuritsu(rows, r) ==
    IF total_business_volume(rows) = Zero THEN Zero
    ELSE RDiv(r.gyoumuryou, total_business_volume(rows))

with_haifuritsu(rows) ==
    [i \in 1..Len(rows) |->
        [code |-> rows[i].code,
         gyoumuryou |-> rows[i].gyoumuryou,
         haifuritsu |-> haifuritsu(rows, rows[i]),
         group |-> group_map[rows[i].code]]]

\* groupby(group)[haifuritsu].transform('sum'), for the row r
group_sum(rows, r) ==
    RSum(Column(SelectSeq(rows, LAMBDA q: q.group = r.group), "haifuritsu"))

\* faulty variant: the global ratio is not divided by the sum of its group
basho_haifuritsu_ungrouped(rows, r) == r.haifuritsu

\* the column basho_haifuritsu: haifuritsu.divide(group_sum).fillna(0)
basho_haifuritsu(rows, r) == fillna0(RDiv(r.haifuritsu, group_sum(rows, r)))

with_basho_haifuritsu(rows) ==
    [i \in 1..Len(rows) |->
        [code |-> rows[i].code,
         gyoumuryou |-> rows[i].gyoumuryou,
         haifuritsu |-> rows[i].haifuritsu,
         group |-> rows[i].group,
         basho_haifuritsu |-> basho_haifuritsu(rows, rows[i])]]

\* faulty variant: the total is taken before the unmapped columns are dropped
preprocess_haihu_total_before_filter(csv) ==
    IF csv_empty(csv) THEN None
    ELSE LET df_melted == filter_group_map(melt(csv.cols))
         IN  IF df_melted = <<>> THEN None
             ELSE Frame(with_basho_haifuritsu(
                    [i \in 1..Len(df_melted) |->
                        [code |-> df_melted[i].code,
                         gyoumuryou |-> df_melted[i].gyoumuryou,
                         haifuritsu |-> haifuritsu(melt(csv.cols), df_melted[i]),
                         group |-> group_map[df_melted[i].code]]]))

preprocess_haihu(csv) ==
    IF csv_empty(csv) THEN None
    ELSE LET df_melted == filter_group_map(melt(csv.cols))
         IN  IF df_melted = <<>> THEN None
             ELSE Frame(with_basho_haifuritsu(with_haifuritsu(df_melted)))

-----------------------------------------------------------------------------
(* Ratio files the model reads *)

\* the file has a header line and, below it, one line of data (or none)
DataRows == {0, 1}

\* text of a cell: a number, or text that is no number (it parses to nothing;
\* its value field is never to be read)
Cells ==
    {[numeric |-> TRUE, value |-> v] : v \in {-1, 1, 2}}
    \cup {[numeric |-> FALSE, value |-> 9]}

\* headers of the ratio file: mapped departments of two groups, one unmapped
HaihuCodes == {H102200, H101100, S202100, X999999}

distinct_codes(cols) ==
    \A i, j \in 1..Len(cols) : cols[i].code = cols[j].code => i = j

\* the files of at most maxCols columns, headers distinct
CsvFiles(codes, cells, maxCols) ==
    UNION { { [cols |-> c] :
                c \in { d \in [1..n -> [code : codes, cells : [1..k -> cells]]] :
                          distinct_codes(d) } } :
            n \in 0..maxCols, k \in DataRows }

HaihuCsvFiles == CsvFiles(HaihuCodes, Cells, MaxCols)

\* the period of the example of the prompt of get_user_date, "2024/08"
example_date == 20240801

\* the periods a user enters, each the first day of its month
TargetDates == {example_date, 20240901}

-----------------------------------------------------------------------------
(* Specification SpecHaihu: preprocess_haihu applied to every ratio file *)

InitHaihu ==
    /\ pc = "call_preprocess_haihu"
    /\ haihu_csv \in HaihuCsvFiles
    /\ df_haihu = None
    /\ merged_df = <<>>
    /\ classLoaded = TRUE
    /\ df_zen_kyoutuu = <<>>
    /\ df_basho_kyoutuu = <<>>
    /\ df_main_data = <<>>
    /\ allocation_results = <<>>
    /\ all_basho_haifu_dfs = <<>>
    /\ anchor_i = 1
    /\ df_allocated = [raised |-> FALSE, rows |-> <<>>]
    /\ target_date \in TargetDates
    /\ run = 1
    /\ df_allocated_run1 = [raised |-> FALSE, rows |-> <<>>]
    /\ NormalizerIdle
    /\ MainIdle

CallPreprocessHaihu ==
    /\ pc = "call_preprocess_haihu"
    /\ df_haihu' = preprocess_haihu(haihu_csv)
    /\ pc' = "preprocess_haihu_returned"
    /\ UNCHANGED <<haihu_csv, merged_df, classLoaded, df_zen_kyoutuu,
                   df_basho_kyoutuu, df_main_data, allocation_results,
                   all_basho_haifu_dfs, anchor_i, df_allocated>>
    /\ UNCHANGED <<caller_vars, normalizer_vars, main_vars>>

NextHaihu == CallPreprocessHaihu

SpecHaihu == InitHaihu /\ [][NextHaihu]_vars

-----------------------------------------------------------------------------
(* Properties of preprocess_haihu (checked under SpecHaihu).  What the     *)
(* properties say about the file is computed here from haihu_csv itself,   *)
(* in integers, not with the operators of the model.                       *)

Returned == pc = "preprocess_haihu_returned"

\* what a cell weighs: its number, 0 for text that is no number
CellWeight(cell) == IF cell.numeric THEN cell.value ELSE 0

RECURSIVE SumInts(_)
SumInts(s) == IF s = <<>> THEN 0 ELSE Head(s) + SumInts(Tail(s))

\* the columns of the file whose header passes P
ColsWhere(csv, P(_)) == SelectSeq(csv.cols, LAMBDA c: P(c.code))

\* weight and number of the cells of the columns whose header passes P
WeightWhere(csv, P(_)) ==
    SumInts([i \in 1..Len(ColsWhere(csv, P)) |->
                SumInts([r \in 1..Len(ColsWhere(csv, P)[i].cells) |->
                            CellWeight(ColsWhere(csv, P)[i].cells[r])])])

CountWhere(csv, P(_)) ==
    SumInts([i \in 1..Len(ColsWhere(csv, P)) |-> Len(ColsWhere(csv, P)[i].cells)])

Mapped(code) == code \in DOMAIN group_map
KeptWeight(csv) == WeightWhere(csv, Mapped)
KeptCount(csv) == CountWhere(csv, Mapped)
GroupWeight(csv, g) ==
    WeightWhere(csv, LAMBDA code: Mapped(code) /\ group_map[code] = g)

Groups == {group_map[c] : c \in DOMAIN group_map}
RowsOfGroup(rows, g) == SelectSeq(rows, LAMBDA q: q.group = g)

\* C4: whenever the raw weights of the kept (mapped) rows sum to more than 0,
\* preprocess_haihu returns a table whose global ratios sum to 1.
C4_GlobalRatiosSumToOne ==
    (Returned /\ KeptWeight(haihu_csv) > 0) =>
        /\ ~df_haihu.isNone
        /\ RSum(Column(df_haihu.rows, "haifuritsu")) = One

\* C4 witness: a returned table of two kept rows of different positive weight
\* next to an unmapped column
C4_Witness ==
    /\ Returned
    /\ KeptWeight(haihu_csv) > 0
    /\ Len(df_haihu.rows) = 2
    /\ df_haihu.rows[1].gyoumuryou # df_haihu.rows[2].gyoumuryou
    /\ Len(haihu_csv.cols) = 3

\* C5 as stated: in every returned table, the group ratios of every location
\* group that has a row sum to 1.
C5_Original_EveryGroupSumsToOne ==
    (Returned /\ ~df_haihu.isNone) =>
        \A g \in Groups :
            RowsOfGroup(df_haihu.rows, g) # <<>> =>
                RSum(Column(RowsOfGroup(df_haihu.rows, g), "basho_haifuritsu")) = One

\* C5 amended: in every returned table, the group ratios of every location
\* group whose global ratios do not sum to 0 sum to 1.
C5_GroupRatiosSumToOne ==
    (Returned /\ ~df_haihu.isNone) =>
        \A g \in Groups :
            RSum(Column(RowsOfGroup(df_haihu.rows, g), "haifuritsu")) # Zero =>
                RSum(Column(RowsOfGroup(df_haihu.rows, g), "basho_haifuritsu")) = One

\* C5 witness: two groups in the table, one of two rows, each group with a
\* non-zero share
C5_Witness ==
    /\ Returned
    /\ ~df_haihu.isNone
    /\ Len(RowsOfGroup(df_haihu.rows, "honten_tokyo")) = 2
    /\ Len(RowsOfGroup(df_haihu.rows, "sapporo")) = 1
    /\ \A g \in {"honten_tokyo", "sapporo"} :
          RSum(Column(RowsOfGroup(df_haihu.rows, g), "haifuritsu")) # Zero

\* C6: when there are kept rows and their raw weights sum to 0, the table is
\* still returned (one row per kept cell) and every global ratio and every
\* group ratio in it is 0.
C6_ZeroTotalGivesZeroRatios ==
    (Returned /\ KeptCount(haihu_csv) > 0 /\ KeptWeight(haihu_csv) = 0) =>
        /\ ~df_haihu.isNone
        /\ Len(df_haihu.rows) = KeptCount(haihu_csv)
        /\ \A i \in 1..Len(df_haihu.rows) :
              /\ df_haihu.rows[i].haifuritsu = Zero
              /\ df_haihu.rows[i].basho_haifuritsu = Zero

\* C6 witness: kept weights that are not 0 and cancel
C6_Witness ==
    /\ Returned
    /\ KeptCount(haihu_csv) > 0
    /\ KeptWeight(haihu_csv) = 0
    /\ \E i \in 1..Len(df_haihu.rows) : df_haihu.rows[i].gyoumuryou # Zero

\* C7 as stated: in every returned table, every row of a location group whose
\* global ratios sum to 0 has group ratio exactly 0.
C7_ZeroGroupGivesZeroGroupRatio ==
    (Returned /\ ~df_haihu.isNone) =>
        \A i \in 1..Len(df_haihu.rows) :
            RSum(Column(RowsOfGroup(df_haihu.rows, df_haihu.rows[i].group),
                        "haifuritsu")) = Zero
                => df_haihu.rows[i].basho_haifuritsu = Zero

\* C8: the returned table has exactly one row per cell of a mapped column, in
\* the order of the file, each with its group; and the denominators of both
\* ratios are sums over mapped columns only (whole file, resp. the group).
C8_UnmappedColumnsDropped ==
    Returned =>
        /\ df_haihu.isNone <=> (KeptCount(haihu_csv) = 0)
        /\ Len(df_haihu.rows) = KeptCount(haihu_csv)
        /\ \A i \in 1..Len(df_haihu.rows) :
              LET r == df_haihu.rows[i]
                  c == ColsWhere(haihu_csv, Mapped)[i]
              IN  /\ r.code = c.code
                  /\ Mapped(r.code)
                  /\ r.group = group_map[r.code]
                  /\ r.gyoumuryou = Num(CellWeight(c.cells[1]))
                  /\ KeptWeight(haihu_csv) # 0 =>
                        r.haifuritsu = Rat(CellWeight(c.cells[1]), KeptWeight(haihu_csv))
                  /\ (KeptWeight(haihu_csv) # 0 /\ GroupWeight(haihu_csv, r.group) # 0) =>
                        r.basho_haifuritsu =
                            Rat(CellWeight(c.cells[1]), GroupWeight(haihu_csv, r.group))

\* C8 witness: a file with an unmapped column of non-zero weight between
\* mapped ones, and the table returned for it
C8_Witness ==
    /\ Returned
    /\ ~df_haihu.isNone
    /\ Len(haihu_csv.cols) = 3
    /\ haihu_csv.cols[2].code = X999999
    /\ CellWeight(haihu_csv.cols[2].cells[1]) # 0
    /\ Len(df_haihu.rows) = 2
    /\ KeptWeight(haihu_csv) # 0


-----------------------------------------------------------------------------
(* module_haifu_keisan.execute_allocation                                  *)
(*                                                                         *)
(* A record of a partition: [idx, code, bunrui2, kingaku] (+ basho in      *)
(* merged_df): index label, department code, class2, amount.  An allocated *)
(* row: [hizuke, code, kingaku, bunrui1, bunrui2, bunrui3, kamoku_code,    *)
(* kamoku_mei], kingaku a float.                                           *)

target_departments_basho == <<H100100, S200100, O500100, F600100>>

\* faulty variant: the prefix is of four characters
prefix4(code) == SubSeq(code, 1, IF Len(code) < 4 THEN Len(code) ELSE 4)

\* dept_code[:3]
prefix3(code) == SubSeq(code, 1, IF Len(code) < 3 THEN Len(code) ELSE 3)

\* str.startswith(prefix)
startswith(code, prefix) ==
    Len(code) >= Len(prefix) /\ SubSeq(code, 1, Len(prefix)) = prefix

\* df[df[bunrui2] == tag][kingaku].sum()
RECURSIVE sum_bunrui2(_, _)
sum_bunrui2(df, tag) ==
    IF df = <<>> THEN 0
    ELSE (IF Head(df).bunrui2 = tag THEN Head(df).kingaku ELSE 0)
         + sum_bunrui2(Tail(df), tag)

\* faulty variant: the records without class2 count as working-capital assets
untenshihon_total_with_unclassified(df) ==
    sum_bunrui2(df, "untenshihon(shisan)") + sum_bunrui2(df, "NaN")
    - sum_bunrui2(df, "untenshihon(fusai)")

\* sum_shisan - sum_fusai of the working-capital pair
untenshihon_total(df) ==
    sum_bunrui2(df, "untenshihon(shisan)") - sum_bunrui2(df, "untenshihon(fusai)")

\* faulty variant: the liabilities are added to the assets
koteishisan_total_added(df) ==
    sum_bunrui2(df, "koteishisan(shisan)") + sum_bunrui2(df, "koteishisan(fusai)")

\* sum_shisan_kotei - sum_fusai_kotei of the fixed-asset pair
koteishisan_total(df) ==
    sum_bunrui2(df, "koteishisan(shisan)") - sum_bunrui2(df, "koteishisan(fusai)")

\* the frame pd.DataFrame({code: haihu[code], kingaku: total * haihu[ratio], ..})
anbun(haihu_rows, total, ratio, bunrui1, bunrui2) ==
    [i \in 1..Len(haihu_rows) |->
        [hizuke |-> target_date,
         code |-> haihu_rows[i].code,
         kingaku |-> RMul(Num(total), haihu_rows[i][ratio]),
         bunrui1 |-> bunrui1,
         bunrui2 |-> bunrui2,
         bunrui3 |-> "",
         kamoku_code |-> "",
         kamoku_mei |-> ""]]

\* the guard of the three blocks on the ratio table
haihu_usable(haihu) == ~haihu.isNone /\ haihu.rows # <<>>

\* faulty variant: a zero subtotal is distributed too
emit_always(haihu_rows, total, ratio, bunrui1, bunrui2) ==
    anbun(haihu_rows, total, ratio, bunrui1, bunrui2)

\* faulty variant: nothing is distributed either when every ratio is 0
emit_unless_ratios_zero(haihu_rows, total, ratio, bunrui1, bunrui2) ==
    IF total # 0 /\ \E i \in 1..Len(haihu_rows) : haihu_rows[i][ratio] # Zero
    THEN anbun(haihu_rows, total, ratio, bunrui1, bunrui2)
    ELSE <<>>

\* if total != 0: the frame; else nothing
emit(haihu_rows, total, ratio, bunrui1, bunrui2) ==
    IF total # 0 THEN anbun(haihu_rows, total, ratio, bunrui1, bunrui2) ELSE <<>>

\* faulty variant: the store-wide working-capital block distributes by the group ratio
zen_untenshihon_by_group_ratio(zen, haihu, hasClass) ==
    IF zen # <<>> /\ haihu_usable(haihu) /\ hasClass
    THEN emit(haihu.rows, untenshihon_total(zen), "basho_haifuritsu",
              "untenshihon", "untenshihon_zen_kyoutuu")
    ELSE <<>>

\* rows the store-wide working-capital block appends; without the class
\* columns the lookup raises KeyError inside the try and nothing is appended
zen_untenshihon(zen, haihu, hasClass) ==
    IF zen # <<>> /\ haihu_usable(haihu) /\ hasClass
    THEN emit(haihu.rows, untenshihon_total(zen), "haifuritsu",
              "untenshihon", "untenshihon_zen_kyoutuu")
    ELSE <<>>

\* faulty variant: the fixed-asset block labels its rows as working capital
zen_koteishisan_mislabelled(zen, haihu, hasClass) ==
    IF zen # <<>> /\ haihu_usable(haihu) /\ hasClass
    THEN emit(haihu.rows, koteishisan_total(zen), "haifuritsu",
              "untenshihon", "koteishisan_zen_kyoutuu")
    ELSE <<>>

\* rows the store-wide fixed-asset block appends
zen_koteishisan(zen, haihu, hasClass) ==
    IF zen # <<>> /\ haihu_usable(haihu) /\ hasClass
    THEN emit(haihu.rows, koteishisan_total(zen), "haifuritsu",
              "koteishisan", "koteishisan_zen_kyoutuu")
    ELSE <<>>

\* faulty variant: the subtotals of an anchor are taken over the whole partition
df_dept_basho_unscoped(basho, dept_code) == basho

\* df_basho_kyoutuu[df_basho_kyoutuu[code] == dept_code]
df_dept_basho(basho, dept_code) ==
    SelectSeq(basho, LAMBDA r: r.code = dept_code)

\* df_haihu[df_haihu[code].str.startswith(prefix)]
df_haihu_target(haihu, dept_code) ==
    SelectSeq(haihu.rows, LAMBDA r: startswith(r.code, prefix3(dept_code)))

\* faulty variant: an anchor without rows ends the loop instead of being skipped
anchor_absent_next_breaks(i) == Len(target_departments_basho) + 1

\* continue: the loop goes on with the next anchor
anchor_absent_next(i) == i + 1

\* one pass of the loop over the anchors, for dept_code:
\* [raised, rows]: KeyError raised (no handler in the loop), rows emitted
basho_anchor(basho, haihu, hasClass, dept_code) ==
    IF df_dept_basho(basho, dept_code) = <<>>
    THEN [raised |-> FALSE, rows |-> <<>>]
    ELSE IF ~hasClass
    THEN [raised |-> TRUE, rows |-> <<>>]
    ELSE IF df_haihu_target(haihu, dept_code) = <<>>
    THEN [raised |-> FALSE, rows |-> <<>>]
    ELSE [raised |-> FALSE,
          rows |->
             emit(df_haihu_target(haihu, dept_code),
                  untenshihon_total(df_dept_basho(basho, dept_code)),
                  "basho_haifuritsu", "untenshihon", "untenshihon_basho_kyoutuu")
             \o
             emit(df_haihu_target(haihu, dept_code),
                  koteishisan_total(df_dept_basho(basho, dept_code)),
                  "basho_haifuritsu", "koteishisan", "koteishisan_basho_kyoutuu")]

-----------------------------------------------------------------------------
(* app.main: partitioning of the tagged records *)

is_zen_kyoutuu(r) == r.basho = "zen_kyoutuu"
is_basho_kyoutuu(r) == r.basho = "basho_kyoutuu"

\* faulty variant: the main data keeps the location-common records
is_main_data_keeps_basho(r) == ~is_zen_kyoutuu(r)

\* ~is_zen_kyoutuu & ~is_basho_kyoutuu
is_main_data(r) == ~is_zen_kyoutuu(r) /\ ~is_basho_kyoutuu(r)

\* merged_df.drop(columns=[basho, dept name]): the row without its location
drop_basho(r) ==
    [idx |-> r.idx, code |-> r.code, bunrui2 |-> r.bunrui2, kingaku |-> r.kingaku]

main_data_of(merged) ==
    LET kept == SelectSeq(merged, is_main_data)
    IN  [i \in 1..Len(kept) |-> drop_basho(kept[i])]

-----------------------------------------------------------------------------
(* Inputs of the pipeline *)

\* the location table joined to the records: the location of a department,
\* "NaN" for a department the table has no row for
df_location ==
    (A900000 :> "zen_kyoutuu")
    @@ (H100100 :> "basho_kyoutuu")
    @@ (S200100 :> "basho_kyoutuu")
    @@ (H102200 :> "tokyo")

basho_of(code) ==
    IF code \in DOMAIN df_location THEN df_location[code] ELSE "NaN"

\* records of the common departments: each class2 tag with its amounts
CommonLines ==
    [code : {A900000, H100100, S200100},
     bunrui2 : {"untenshihon(shisan)"}, kingaku : {1000, 200}]
    \cup [code : {A900000, H100100, S200100},
          bunrui2 : {"untenshihon(fusai)"}, kingaku : {200}]
    \cup [code : {A900000, H100100, S200100},
          bunrui2 : {"koteishisan(shisan)"}, kingaku : {5000, 1000}]
    \cup [code : {A900000, H100100, S200100},
          bunrui2 : {"koteishisan(fusai)"}, kingaku : {1000}]

\* records of other departments: one with a location, one without
OtherLines ==
    [code : {H102200, X999999}, bunrui2 : {"untenshihon(shisan)"}, kingaku : {200}]

\* records when the classification table was not loaded: no class column
UnclassifiedLines ==
    [code : {A900000, H100100, S200100, H102200}, bunrui2 : {"NaN"}, kingaku : {200}]

InputLines(hasClass) ==
    IF hasClass THEN CommonLines \cup OtherLines ELSE UnclassifiedLines

\* the records after the two joins, row i with index label i
tagged(lines) ==
    [i \in 1..Len(lines) |->
        [idx |-> i,
         code |-> lines[i].code,
         bunrui2 |-> lines[i].bunrui2,
         basho |-> basho_of(lines[i].code),
         kingaku |-> lines[i].kingaku]]

MergedInputs(hasClass) ==
    UNION { {tagged(l) : l \in [1..n -> InputLines(hasClass)]} : n \in 0..MaxRecs }

Col(code, v) == [code |-> code, cells |-> <<[numeric |-> TRUE, value |-> v]>>]

\* ratio files of the pipeline runs
AllocCsvFiles ==
    { [cols |-> <<Col(H102200, 3), Col(H101100, 2)>>],
      [cols |-> <<Col(H102200, 7), Col(H101100, 3), Col(S202100, 10)>>],
      [cols |-> <<Col(H102200, 1), Col(H101100, -1), Col(S202100, 2)>>],
      [cols |-> <<Col(S202100, 0), Col(H101100, 0)>>],
      [cols |-> <<Col(H102200, 1), Col(S202100, -1)>>],
      [cols |-> <<Col(X999999, 5), Col(S202100, 2)>>],
      [cols |-> <<Col(X999999, 5)>>] }

-----------------------------------------------------------------------------
(* Specification Spec: main() from the partitioning to the return of       *)
(* execute_allocation                                                      *)

Init ==
    /\ pc = "partition"
    /\ haihu_csv \in AllocCsvFiles
    /\ df_haihu = None
    /\ classLoaded \in BOOLEAN
    /\ merged_df \in MergedInputs(classLoaded)
    /\ df_zen_kyoutuu = <<>>
    /\ df_basho_kyoutuu = <<>>
    /\ df_main_data = <<>>
    /\ allocation_results = <<>>
    /\ all_basho_haifu_dfs = <<>>
    /\ anchor_i = 1
    /\ df_allocated = [raised |-> FALSE, rows |-> <<>>]
    /\ target_date = example_date
    /\ run = 1
    /\ df_allocated_run1 = [raised |-> FALSE, rows |-> <<>>]
    /\ NormalizerIdle
    /\ MainIdle

\* app.py 196-214
Partition ==
    /\ pc = "partition"
    /\ df_zen_kyoutuu' = SelectSeq(merged_df, is_zen_kyoutuu)
    /\ df_basho_kyoutuu' = SelectSeq(merged_df, is_basho_kyoutuu)
    /\ df_main_data' = main_data_of(merged_df)
    /\ pc' = "load_haihu"
    /\ UNCHANGED <<haihu_csv, df_haihu, merged_df, classLoaded,
                   allocation_results, all_basho_haifu_dfs, anchor_i, df_allocated>>
    /\ UNCHANGED <<caller_vars, normalizer_vars, main_vars>>

\* app.py 216-219
LoadHaihu ==
    /\ pc = "load_haihu"
    /\ df_haihu' = preprocess_haihu(haihu_csv)
    /\ pc' = "check_haihu"
    /\ UNCHANGED <<haihu_csv, merged_df, classLoaded, df_zen_kyoutuu,
                   df_basho_kyoutuu, df_main_data, allocation_results,
                   all_basho_haifu_dfs, anchor_i, df_allocated>>
    /\ UNCHANGED <<caller_vars, normalizer_vars, main_vars>>

\* app.py 222-224: the ratio table is there, execute_allocation is entered
CallExecuteAllocation ==
    /\ pc = "check_haihu"
    /\ haihu_usable(df_haihu)
    /\ pc' = "zen_untenshihon"
    /\ UNCHANGED <<haihu_csv, df_haihu, merged_df, classLoaded, df_zen_kyoutuu,
                   df_basho_kyoutuu, df_main_data, allocation_results,
                   all_basho_haifu_dfs, anchor_i, df_allocated>>
    /\ UNCHANGED <<caller_vars, normalizer_vars, main_vars>>

\* app.py 230-231: no ratio table, the allocation is skipped
SkipAllocation ==
    /\ pc = "check_haihu"
    /\ ~haihu_usable(df_haihu)
    /\ pc' = "allocation_skipped"
    /\ UNCHANGED <<haihu_csv, df_haihu, merged_df, classLoaded, df_zen_kyoutuu,
                   df_basho_kyoutuu, df_main_data, allocation_results,
                   all_basho_haifu_dfs, anchor_i, df_allocated>>
    /\ UNCHANGED <<caller_vars, normalizer_vars, main_vars>>

\* module_haifu_keisan.py 24-47
ZenUntenshihon ==
    /\ pc = "zen_untenshihon"
    /\ allocation_results' =
          allocation_results \o zen_untenshihon(df_zen_kyoutuu, df_haihu, classLoaded)
    /\ pc' = "zen_koteishisan"
    /\ UNCHANGED <<haihu_csv, df_haihu, merged_df, classLoaded, df_zen_kyoutuu,
                   df_basho_kyoutuu, df_main_data, all_basho_haifu_dfs, anchor_i,
                   df_allocated>>
    /\ UNCHANGED <<caller_vars, normalizer_vars, main_vars>>

\* module_haifu_keisan.py 49-72
ZenKoteishisan ==
    /\ pc = "zen_koteishisan"
    /\ allocation_results' =
          allocation_results \o zen_koteishisan(df_zen_kyoutuu, df_haihu, classLoaded)
    /\ pc' = "basho_loop"
    /\ UNCHANGED <<haihu_csv, df_haihu, merged_df, classLoaded, df_zen_kyoutuu,
                   df_basho_kyoutuu, df_main_data, all_basho_haifu_dfs, anchor_i,
                   df_allocated>>
    /\ UNCHANGED <<caller_vars, normalizer_vars, main_vars>>

\* line 79 and the for of line 80: the loop has an anchor left to process
basho_loop_runs ==
    /\ df_basho_kyoutuu # <<>>
    /\ haihu_usable(df_haihu)
    /\ anchor_i <= Len(target_departments_basho)

\* module_haifu_keisan.py 80-121: one pass of the loop; a KeyError leaves
\* execute_allocation, and main, which has no handler for it
BashoAnchor ==
    /\ pc = "basho_loop"
    /\ basho_loop_runs
    /\ LET dept_code == target_departments_basho[anchor_i]
           res == basho_anchor(df_basho_kyoutuu, df_haihu, classLoaded, dept_code)
       IN  IF res.raised
           THEN /\ pc' = "raised"
                /\ df_allocated' = [raised |-> TRUE, rows |-> <<>>]
                /\ UNCHANGED <<all_basho_haifu_dfs, anchor_i>>
           ELSE /\ pc' = "basho_loop"
                /\ all_basho_haifu_dfs' = all_basho_haifu_dfs \o res.rows
                /\ anchor_i' =
                      IF df_dept_basho(df_basho_kyoutuu, dept_code) = <<>>
                      THEN anchor_absent_next(anchor_i)
                      ELSE anchor_i + 1
                /\ UNCHANGED df_allocated
    /\ UNCHANGED <<haihu_csv, df_haihu, merged_df, classLoaded, df_zen_kyoutuu,
                   df_basho_kyoutuu, df_main_data, allocation_results>>
    /\ UNCHANGED <<caller_vars, normalizer_vars, main_vars>>

\* module_haifu_keisan.py 123-134: the frames are concatenated and returned
ReturnAllocation ==
    /\ pc = "basho_loop"
    /\ ~basho_loop_runs
    /\ allocation_results' = allocation_results \o all_basho_haifu_dfs
    /\ df_allocated' =
          [raised |-> FALSE, rows |-> allocation_results \o all_basho_haifu_dfs]
    /\ pc' = "allocated"
    /\ UNCHANGED <<haihu_csv, df_haihu, merged_df, classLoaded, df_zen_kyoutuu,
                   df_basho_kyoutuu, df_main_data, all_basho_haifu_dfs, anchor_i>>
    /\ UNCHANGED <<caller_vars, normalizer_vars, main_vars>>

Next ==
    \/ Partition
    \/ LoadHaihu
    \/ CallExecuteAllocation
    \/ SkipAllocation
    \/ ZenUntenshihon
    \/ ZenKoteishisan
    \/ BashoAnchor
    \/ ReturnAllocation

Spec == Init /\ [][Next]_vars

-----------------------------------------------------------------------------
(* Specification SpecAllocation: execute_allocation is called for a target *)
(* period and, once it has returned, called again with the same arguments  *)

\* ratio files of these runs: two groups with weights 7, 3, 10, and a file
\* without any mapped department (no ratio table, no call)
AllocationCsvFiles ==
    { [cols |-> <<Col(H102200, 7), Col(H101100, 3), Col(S202100, 10)>>],
      [cols |-> <<Col(X999999, 5)>>] }

InitAllocation ==
    /\ pc = "partition"
    /\ haihu_csv \in AllocationCsvFiles
    /\ df_haihu = None
    /\ classLoaded \in BOOLEAN
    /\ merged_df \in MergedInputs(classLoaded)
    /\ df_zen_kyoutuu = <<>>
    /\ df_basho_kyoutuu = <<>>
    /\ df_main_data = <<>>
    /\ allocation_results = <<>>
    /\ all_basho_haifu_dfs = <<>>
    /\ anchor_i = 1
    /\ df_allocated = [raised |-> FALSE, rows |-> <<>>]
    /\ target_date \in TargetDates
    /\ run = 1
    /\ df_allocated_run1 = [raised |-> FALSE, rows |-> <<>>]
    /\ NormalizerIdle
    /\ MainIdle

\* faulty variant: the list lives on from one call to the next
new_list_kept(previous) == previous

\* allocation_results = [] and all_basho_haifu_dfs = []: each call starts
\* with lists of its own, whatever an earlier call has left
new_list(previous) == <<>>

\* the second call: module_haifu_keisan.py 4-22, with the arguments of the
\* first call, which no statement of execute_allocation has assigned to
CallExecuteAllocationAgain ==
    /\ pc = "allocated"
    /\ run = 1
    /\ df_allocated_run1' = df_allocated
    /\ run' = 2
    /\ allocation_results' = new_list(allocation_results)
    /\ all_basho_haifu_dfs' = new_list(all_basho_haifu_dfs)
    /\ anchor_i' = 1
    /\ pc' = "zen_untenshihon"
    /\ UNCHANGED <<haihu_csv, df_haihu, merged_df, classLoaded, df_zen_kyoutuu,
                   df_basho_kyoutuu, df_main_data, df_allocated, target_date>>
    /\ UNCHANGED <<normalizer_vars, main_vars>>

NextAllocation ==
    \/ Partition
    \/ LoadHaihu
    \/ CallExecuteAllocation
    \/ SkipAllocation
    \/ ZenUntenshihon
    \/ ZenKoteishisan
    \/ BashoAnchor
    \/ ReturnAllocation
    \/ CallExecuteAllocationAgain

SpecAllocation == InitAllocation /\ [][NextAllocation]_vars

-----------------------------------------------------------------------------
(* Properties of the partitioning and of execute_allocation (checked under *)
(* Spec).  Subtotals, targets and the rows of a pair are computed here     *)
(* from the partitions and the output, not with the operators of the model.*)

Allocated == pc = "allocated"
Out == df_allocated.rows

\* the two classification pairs: asset tag, liability tag, and the class1
\* and class2 literals of their allocated rows, store-wide and location-common
Pairs ==
    { [shisan |-> "untenshihon(shisan)", fusai |-> "untenshihon(fusai)",
       bunrui1 |-> "untenshihon",
       zen |-> "untenshihon_zen_kyoutuu", basho |-> "untenshihon_basho_kyoutuu"],
      [shisan |-> "koteishisan(shisan)", fusai |-> "koteishisan(fusai)",
       bunrui1 |-> "koteishisan",
       zen |-> "koteishisan_zen_kyoutuu", basho |-> "koteishisan_basho_kyoutuu"] }

Anchors == {H100100, S200100, O500100, F600100}

TagSum(df, tag) ==
    SumInts(Column(SelectSeq(df, LAMBDA r: r.bunrui2 = tag), "kingaku"))

Net(df, p) == TagSum(df, p.shisan) - TagSum(df, p.fusai)

\* the first three characters of the code are those of the anchor
SameFamily(code, anchor) == \A k \in 1..3 : code[k] = anchor[k]

RowsOfAnchor(a) == SelectSeq(df_basho_kyoutuu, LAMBDA r: r.code = a)
TargetsOfAnchor(a) == SelectSeq(df_haihu.rows, LAMBDA r: SameFamily(r.code, a))

\* the allocated rows of a pair: store-wide, resp. of one anchor
OutZen(p) == SelectSeq(Out, LAMBDA r: r.bunrui2 = p.zen)
OutAnchor(a, p) ==
    SelectSeq(Out, LAMBDA r: r.bunrui2 = p.basho /\ SameFamily(r.code, a))

\* sel is one row per row of targets, in order, each with the department of
\* its target and amount = net * the target's ratio
OnePerTarget(sel, targets, net, ratio) ==
    /\ Len(sel) = Len(targets)
    /\ \A i \in 1..Len(targets) :
          /\ sel[i].code = targets[i].code
          /\ sel[i].kingaku = RMul(Num(net), targets[i][ratio])

\* C1: when execute_allocation has returned for a non-empty store_common and
\* a non-empty ratio table, each pair with net # 0 has exactly one allocated
\* row per ratio-table row, with its dept_code and amount = net * global ratio.
C1_StoreWideAllocation ==
    (Allocated /\ df_zen_kyoutuu # <<>> /\ df_haihu.rows # <<>>) =>
        \A p \in Pairs :
            Net(df_zen_kyoutuu, p) # 0 =>
                OnePerTarget(OutZen(p), df_haihu.rows,
                             Net(df_zen_kyoutuu, p), "haifuritsu")

\* C1 witness: asset 1000, liability 200, global ratios 0.6 / 0.4 have
\* yielded rows of 480 and 320
C1_Witness ==
    /\ Allocated
    /\ TagSum(df_zen_kyoutuu, "untenshihon(shisan)") = 1000
    /\ TagSum(df_zen_kyoutuu, "untenshihon(fusai)") = 200
    /\ Column(df_haihu.rows, "haifuritsu") = <<Rat(3, 5), Rat(2, 5)>>
    /\ Column(Out, "kingaku") = <<Num(480), Num(320)>>

\* C2: when execute_allocation has returned, for each anchor that has rows in
\* location_common and each pair whose net over that anchor's rows is # 0,
\* the output has exactly one allocated row per ratio-table row of the
\* anchor's 3-character family, with amount = net * that row's group ratio.
C2_LocationCommonAllocation ==
    Allocated =>
        \A a \in Anchors : \A p \in Pairs :
            (RowsOfAnchor(a) # <<>> /\ Net(RowsOfAnchor(a), p) # 0) =>
                OnePerTarget(OutAnchor(a, p), TargetsOfAnchor(a),
                             Net(RowsOfAnchor(a), p), "basho_haifuritsu")

\* C2 witness: anchor H100100 with fixed-asset asset 5000, liability 1000 and
\* group ratios 0.7 / 0.3 (global ratios 0.35 / 0.15) has yielded 2800, 1200
C2_Witness ==
    /\ Allocated
    /\ TagSum(RowsOfAnchor(H100100), "koteishisan(shisan)") = 5000
    /\ TagSum(RowsOfAnchor(H100100), "koteishisan(fusai)") = 1000
    /\ Column(TargetsOfAnchor(H100100), "basho_haifuritsu") = <<Rat(7, 10), Rat(3, 10)>>
    /\ Column(TargetsOfAnchor(H100100), "haifuritsu") = <<Rat(7, 20), Rat(3, 20)>>
    /\ Column(Out, "kingaku") = <<Num(2800), Num(1200)>>

\* C3: when execute_allocation has returned, a pair whose net subtotal is 0,
\* store-wide or over the rows of one anchor, has no allocated row.
C3_ZeroSubtotalSuppressed ==
    Allocated =>
        \A p \in Pairs :
            /\ Net(df_zen_kyoutuu, p) = 0 => OutZen(p) = <<>>
            /\ \A a \in Anchors :
                  Net(RowsOfAnchor(a), p) = 0 => OutAnchor(a, p) = <<>>

\* C3 witness: store-wide asset and liability sums equal and not 0, a ratio
\* table with non-zero ratios, and nothing emitted
C3_Witness ==
    /\ Allocated
    /\ TagSum(df_zen_kyoutuu, "untenshihon(shisan)") = 200
    /\ TagSum(df_zen_kyoutuu, "untenshihon(fusai)") = 200
    /\ \E i \in 1..Len(df_haihu.rows) : df_haihu.rows[i].haifuritsu # Zero
    /\ Out = <<>>

Partitions == <<df_zen_kyoutuu, df_basho_kyoutuu, df_main_data>>

\* the row of index label i is in the partition P, with its code and amount
InPartition(P, i) ==
    \E j \in 1..Len(P) :
        /\ P[j].idx = i
        /\ P[j].code = merged_df[i].code
        /\ P[j].kingaku = merged_df[i].kingaku

\* C9: once main() has partitioned, every tagged record is in exactly one of
\* the three partitions, the one its location tag names, and the sizes of
\* the partitions add up to the number of records.
C9_PartitionComplete ==
    pc # "partition" =>
        /\ Len(df_zen_kyoutuu) + Len(df_basho_kyoutuu) + Len(df_main_data)
              = Len(merged_df)
        /\ \A i \in 1..Len(merged_df) :
              /\ Cardinality({k \in 1..3 : InPartition(Partitions[k], i)}) = 1
              /\ InPartition(df_zen_kyoutuu, i) <=> merged_df[i].basho = "zen_kyoutuu"
              /\ InPartition(df_basho_kyoutuu, i) <=> merged_df[i].basho = "basho_kyoutuu"
              /\ InPartition(df_main_data, i) <=>
                    merged_df[i].basho \notin {"zen_kyoutuu", "basho_kyoutuu"}

\* C9 witness: partitioned records of which one is location-common and one
\* has no location
C9_Witness ==
    /\ pc = "load_haihu"
    /\ Len(df_basho_kyoutuu) = 1
    /\ Len(df_main_data) = 1
    /\ \E i \in 1..Len(merged_df) : merged_df[i].basho = "NaN"

\* C10: with location_common non-empty, an anchor without rows in it
\* contributes no allocated row and is never where an error is raised, and
\* the anchors that do have rows still get their allocated rows.
C10_AbsentAnchorSkipped ==
    /\ pc = "raised" => RowsOfAnchor(target_departments_basho[anchor_i]) # <<>>
    /\ (Allocated /\ df_basho_kyoutuu # <<>>) =>
          \A a \in Anchors :
              RowsOfAnchor(a) = <<>> =>
                  /\ \A p \in Pairs : OutAnchor(a, p) = <<>>
                  /\ \A b \in Anchors : \A p \in Pairs :
                        (RowsOfAnchor(b) # <<>> /\ Net(RowsOfAnchor(b), p) # 0) =>
                            Len(OutAnchor(b, p)) = Len(TargetsOfAnchor(b))

\* C10 witness: location_common without rows of the first anchor, and the
\* second anchor, processed after it, has its allocated rows
C10_Witness ==
    /\ Allocated
    /\ df_basho_kyoutuu # <<>>
    /\ RowsOfAnchor(H100100) = <<>>
    /\ RowsOfAnchor(S200100) # <<>>
    /\ \E p \in Pairs : OutAnchor(S200100, p) # <<>>

\* C12: every pair computation of execute_allocation is guarded: a failure
\* in one pair (the class2 column is absent because the classification table
\* was not loaded) is never raised to the caller, and the loop still goes
\* through all the anchors before execute_allocation returns.
C12_FailureIsolation ==
    /\ pc # "raised"
    /\ (Allocated /\ df_basho_kyoutuu # <<>>) =>
          anchor_i = Len(target_departments_basho) + 1

-----------------------------------------------------------------------------
(* Properties of execute_allocation called twice (checked under            *)
(* SpecAllocation)                                                         *)

FixedPairs ==
    { <<"untenshihon", "untenshihon_zen_kyoutuu">>,
      <<"koteishisan", "koteishisan_zen_kyoutuu">>,
      <<"untenshihon", "untenshihon_basho_kyoutuu">>,
      <<"koteishisan", "koteishisan_basho_kyoutuu">> }

\* the row r is a share of the net of the pair p over the partition rows
\* part, for a row of targets with the department of r; tag is the class2
\* literal and ratio the ratio column of that partition
ShareOf(r, p, tag, part, targets, ratio) ==
    /\ r.bunrui1 = p.bunrui1
    /\ r.bunrui2 = tag
    /\ part # <<>>
    /\ \E j \in 1..Len(targets) :
          /\ targets[j].code = r.code
          /\ r.kingaku = RMul(Num(Net(part, p)), targets[j][ratio])

\* C13: every row execute_allocation returns has the target period as date,
\* the department of a ratio-table row, empty account code, account name and
\* class3, and one of the four literal (class1, class2) pairs: the store-wide
\* literal of a pair on a share of that pair's net over store_common, the
\* location-common literal on a share of that pair's net over an anchor's rows.
C13_AllocatedRowShape ==
    Allocated =>
        \A i \in 1..Len(Out) :
            LET r == Out[i]
            IN  /\ r.hizuke = target_date
                /\ \E j \in 1..Len(df_haihu.rows) : df_haihu.rows[j].code = r.code
                /\ r.kamoku_code = ""
                /\ r.kamoku_mei = ""
                /\ r.bunrui3 = ""
                /\ <<r.bunrui1, r.bunrui2>> \in FixedPairs
                /\ \E p \in Pairs :
                      \/ ShareOf(r, p, p.zen, df_zen_kyoutuu, df_haihu.rows,
                                 "haifuritsu")
                      \/ \E a \in Anchors :
                            ShareOf(r, p, p.basho, RowsOfAnchor(a),
                                    TargetsOfAnchor(a), "basho_haifuritsu")

\* C13 witness: for the period 2024/09, rows of a store-wide pair and rows of
\* the other pair for an anchor have been returned
C13_Witness ==
    /\ Allocated
    /\ target_date = 20240901
    /\ \A lit \in { <<"koteishisan", "koteishisan_zen_kyoutuu">>,
                     <<"untenshihon", "untenshihon_basho_kyoutuu">> } :
          \E i \in 1..Len(Out) : <<Out[i].bunrui1, Out[i].bunrui2>> = lit

-----------------------------------------------------------------------------
(* The five normalizers.  A source file is a record                        *)
(*   [absent, cols, meta, rows]                                            *)
(* absent: the file does not exist; cols: the columns of its header;       *)
(* meta: what its leading lines tell about the date; rows: its data lines, *)
(* a record of cells each.  A cell of an absent column is the empty cell.  *)
(* An amount cell is [kind, value]: the text of a number ("number"), a     *)
(* number written with thousands separators ("comma"), text without any    *)
(* digit ("word") or nothing ("empty").  A department cell is a code or    *)
(* NaNCode, the empty cell as pd.read_csv returns it.                      *)
(* An account code of the output is [prefix, number], 'BS1043' being        *)
(* [prefix |-> "BS", number |-> "1043"].                                   *)
(* A frame is [isNone, cols, rows]: cols the list of its columns, rows     *)
(* records [hizuke, code, kamoku_code, kingaku] (the names of departments  *)
(* and accounts are not kept); the field of a column the frame does not    *)
(* have holds the missing value, as it will after pd.concat.               *)

\* 'hizuke' ... 'kingaku': date, department code, department name, account
\* code, account name, amount
desired_order ==
    <<"hizuke", "code", "bumon_mei", "kamoku_code", "kamoku_mei", "kingaku">>

\* the missing date (None, NaT)
NaT == 0

\* the missing department code (NaN)
NaNCode == <<"NaN">>

\* the missing account code
NaNKamoku == [prefix |-> "NaN", number |-> ""]

\* the account code 'BS' + number
BS(number) == [prefix |-> "BS", number |-> number]

DataFrame(cols, rows) == [isNone |-> FALSE, cols |-> cols, rows |-> rows]

\* [col for col in order if col in present]
columns_in(order, present) == SelectSeq(order, LAMBDA c : c \in present)

\* the value pd.read_csv gives a cell of an amount column: a float when the
\* column holds numbers only (NaN for the empty cell), else, the column
\* being of dtype object, the text of the cell (NaN for the empty cell)
read_csv_amount(column, cell) ==
    IF cell.kind = "empty" THEN NaN
    ELSE IF \E i \in 1..Len(column) : column[i].kind \in {"comma", "word"}
    THEN [text |-> cell]
    ELSE Num(cell.value)

\* Series.astype(str) on an amount: the text of the number, 'nan' for NaN
astype_str(v) ==
    IF "text" \in DOMAIN v THEN v
    ELSE IF IsNaN(v) THEN [text |-> [kind |-> "word", value |-> 0]]
    ELSE [text |-> [kind |-> "number", value |-> v.n]]

\* str.replace(',', ''): the separators of a number are removed
replace_commas(v) ==
    IF v.text.kind = "comma"
    THEN [text |-> [kind |-> "number", value |-> v.text.value]]
    ELSE v

\* str.replace(r'[^\d.-]', '', regex=True), then '' replaced by None:
\* what is left of a number is the number, of other text nothing
replace_non_numeric(v) ==
    IF v.text.kind \in {"number", "comma"}
    THEN [text |-> [kind |-> "number", value |-> v.text.value]]
    ELSE NaN

\* pd.to_numeric(errors='coerce'): text that is no number becomes NaN
to_numeric_coerce(v) ==
    IF "text" \in DOMAIN v
    THEN (IF v.text.kind = "number" THEN Num(v.text.value) ELSE NaN)
    ELSE v

\* the required columns of the three files of a department, a name and an
\* amount column
tegata_required_columns == <<"irai_bumon_code", "irai_bumon_mei", "tegata_kingaku">>
yoshin_required_columns == <<"keijou_bumon_code", "keijou_bumon_mei", "uketori_tegata">>
zaiko_required_columns == <<"busho_code", "busho_mei", "zaiko_kingaku">>

\* set(required_columns).issubset(df.columns)
issubset(required, csv) == \A k \in 1..Len(required) : required[k] \in csv.cols

\* df.dropna(subset=[the department column])
dropna_code(rows) == SelectSeq(rows, LAMBDA r : r.code # NaNCode)

\* module_shiharaitegata.preprocess_shiharai_tegata: the columns that exist
\* are extracted and renamed, date and account are added; pd.DataFrame()
\* for a file that is absent or has none of the three columns
preprocess_shiharai_tegata(csv, date) ==
    IF csv.absent THEN DataFrame(<<>>, <<>>)
    ELSE LET req == tegata_required_columns
             columns_to_extract == columns_in(req, csv.cols)
             renamed ==
                 (IF req[1] \in csv.cols THEN {"code"} ELSE {})
                 \cup (IF req[2] \in csv.cols THEN {"bumon_mei"} ELSE {})
                 \cup (IF req[3] \in csv.cols THEN {"kingaku"} ELSE {})
             final_columns ==
                 columns_in(desired_order,
                            renamed \cup {"hizuke", "kamoku_code", "kamoku_mei"})
         IN  IF columns_to_extract = <<>> THEN DataFrame(<<>>, <<>>)
             ELSE DataFrame(final_columns,
                     [i \in 1..Len(csv.rows) |->
                        [hizuke |-> date,
                         code |-> csv.rows[i].code,
                         kamoku_code |-> BS("2003"),
                         kingaku |-> read_csv_amount(Column(csv.rows, "kingaku"), csv.rows[i].kingaku)]])

\* module_yoshinzandaka.preprocess_yoshin: [df, date_value_str]; date_obj
\* is pd.to_datetime of the text of line 5, column 2, None when that is no
\* date
preprocess_yoshin(csv) ==
    IF csv.absent THEN [df |-> None, date |-> NaT]
    ELSE IF ~issubset(yoshin_required_columns, csv)
    THEN [df |-> None, date |-> csv.meta]
    ELSE LET df_work == dropna_code(csv.rows)
             date_obj == IF csv.meta.kind = "date" THEN csv.meta.value ELSE NaT
         IN  [df |-> DataFrame(desired_order,
                       [i \in 1..Len(df_work) |->
                          [hizuke |-> date_obj,
                           code |-> df_work[i].code,
                           kamoku_code |-> BS("1013"),
                           kingaku |-> read_csv_amount(Column(csv.rows, "kingaku"), df_work[i].kingaku)]]),
              date |-> csv.meta]

\* base_date.replace(day=1)
first_day(date) == (date \div 100) * 100 + 1

\* module_MACROSSzaiko.preprocess_zaiko_step1: [df, date]; the first line
\* holds the reference date, no reference date, or one that is no date
\* (pd.to_datetime raises, caught by the outer handler); the amounts are
\* made numeric (lines 66-77)
preprocess_zaiko_step1(csv) ==
    IF csv.absent \/ csv.meta.kind = "bad" THEN [df |-> None, date |-> NaT]
    ELSE LET first_day_of_month ==
                 IF csv.meta.kind = "date" THEN first_day(csv.meta.value) ELSE NaT
             df_work == dropna_code(csv.rows)
             zaiko_kingaku(cell) ==
                 fillna0(to_numeric_coerce(replace_non_numeric(astype_str(
                     read_csv_amount(Column(csv.rows, "kingaku"), cell)))))
         IN  IF ~issubset(zaiko_required_columns, csv)
             THEN [df |-> None, date |-> first_day_of_month]
             ELSE [df |->
                     DataFrame(
                       IF first_day_of_month = NaT THEN Tail(desired_order)
                       ELSE desired_order,
                       [i \in 1..Len(df_work) |->
                          [hizuke |-> first_day_of_month,
                           code |-> df_work[i].code,
                           kamoku_code |-> BS("1043"),
                           kingaku |-> zaiko_kingaku(df_work[i].kingaku)]]),
                   date |-> first_day_of_month]

\* the columns the ledger file must have
motocho_required_columns ==
    <<"data_kubun", "keijoubi", "gyou", "code", "bumon_mei", "kamoku_code",
      "kamoku", "karikata_kingaku", "zandaka">>

\* faulty variant: of the lines of equal keys the last of the file is taken
_get_latest_record_last(df) ==
    LET row_number(r) == to_numeric_coerce([text |-> r.gyou])
        later(r, s) ==
            \/ r.keijoubi > s.keijoubi
            \/ r.keijoubi = s.keijoubi /\ row_number(r).n > row_number(s).n
        kept == SelectSeq(df, LAMBDA r : r.keijoubi # NaT /\ ~IsNaN(row_number(r)))
    IN  IF kept = <<>> THEN <<>>
        ELSE LET last == CHOOSE i \in 1..Len(kept) :
                            /\ \A j \in 1..Len(kept) : ~later(kept[j], kept[i])
                            /\ \A j \in (i + 1)..Len(kept) : later(kept[i], kept[j])
             IN  <<kept[last]>>

\* module_motocho._get_latest_record: the lines whose date and line number
\* (pd.to_numeric(errors='coerce') of its text) parse, sorted by
\* sort_values(by=[keijoubi, gyou], ascending=[False, False]), the first of
\* them; lines of equal keys stay in the order of the file
_get_latest_record(df) ==
    LET row_number(r) == to_numeric_coerce([text |-> r.gyou])
        later(r, s) ==
            \/ r.keijoubi > s.keijoubi
            \/ r.keijoubi = s.keijoubi /\ row_number(r).n > row_number(s).n
        kept == SelectSeq(df, LAMBDA r : r.keijoubi # NaT /\ ~IsNaN(row_number(r)))
    IN  IF kept = <<>> THEN <<>>
        ELSE LET first == CHOOSE i \in 1..Len(kept) :
                            /\ \A j \in 1..Len(kept) : ~later(kept[j], kept[i])
                            /\ \A j \in 1..(i - 1) : later(kept[i], kept[j])
             IN  <<kept[first]>>

\* module_motocho.preprocess_motocho: [df_1, df_2], the frames of the
\* accounts 109801 and 491701; a frame without line is returned as it was
\* extracted, with the nine columns of the file; the amounts are made
\* numeric (lines 114-117, 128-131)
preprocess_motocho(csv) ==
    IF csv.absent \/ ~issubset(motocho_required_columns, csv)
    THEN [df_1 |-> None, df_2 |-> None]
    ELSE LET of(kamoku) ==
                 _get_latest_record(
                     SelectSeq(csv.rows, LAMBDA r : r.kamoku_code = kamoku))
             motocho_kingaku(column, cell) ==
                 fillna0(to_numeric_coerce(replace_commas(astype_str(
                     read_csv_amount(column, cell)))))
             df_109801 == of("109801")
             df_491701 == of("491701")
         IN  [df_1 |->
                 IF df_109801 = <<>> THEN DataFrame(motocho_required_columns, <<>>)
                 ELSE DataFrame(desired_order,
                        <<[hizuke |-> first_day(df_109801[1].keijoubi),
                           code |-> H101210,
                           kamoku_code |-> BS("1098"),
                           kingaku |->
                              motocho_kingaku(Column(csv.rows, "zandaka"),
                                              df_109801[1].zandaka)]>>),
              df_2 |->
                 IF df_491701 = <<>> THEN DataFrame(motocho_required_columns, <<>>)
                 ELSE DataFrame(desired_order,
                        <<[hizuke |-> first_day(df_491701[1].keijoubi),
                           code |-> df_491701[1].code,
                           kamoku_code |-> BS("1043"),
                           kingaku |->
                              RMul(motocho_kingaku(
                                       Column(csv.rows, "karikata_kingaku"),
                                       df_491701[1].karikata_kingaku),
                                   Num(-1))]>>)]

\* the columns melt keeps as they are
id_columns == <<"code", "bumon_mei", "kamoku_code", "kamoku_mei">>

\* the accounts removed from the trial balance
codes_to_delete ==
    {BS("1043"), BS("1098"), BS("2003"), BS("1013"), BS("1015"), BS("2004")}

\* the label of a value column as a date: '2024<nen>08<gatsudo>' gives
\* 2024/08/01; any other text does not parse (errors='coerce')
to_datetime_coerce(label) == IF label.kind = "month" THEN label.date ELSE NaT

\* df.melt: one line per value column and line of df, column by column,
\* with the amount made numeric (line 64)
df_melted(df, value_columns) ==
    [n \in 1..(Len(value_columns) * Len(df)) |->
        LET k == ((n - 1) \div Len(df)) + 1
            i == ((n - 1) % Len(df)) + 1
        IN  [taishougetsu |-> value_columns[k],
             code |-> df[i].code,
             kamoku_code |-> df[i].kamoku_code,
             kingaku |->
                fillna0(to_numeric_coerce(
                    read_csv_amount([j \in 1..Len(df) |-> df[j].cells[k]],
                                    df[i].cells[k])))]]

\* groupby(taishougetsu)[kingaku].sum() of the account BS1043, without the
\* carried-forward column, the labels made dates
sum_bs1043_by_month(melted, value_columns) ==
    LET months == SelectSeq(value_columns,
                      LAMBDA l : /\ l.kind # "zenzan"
                                 /\ \E n \in 1..Len(melted) :
                                       /\ melted[n].taishougetsu = l
                                       /\ melted[n].kamoku_code = BS("1043"))
    IN  [m \in 1..Len(months) |->
            [hizuke |-> to_datetime_coerce(months[m]),
             kingaku |->
                RSum(Column(SelectSeq(melted,
                                LAMBDA r : /\ r.taishougetsu = months[m]
                                           /\ r.kamoku_code = BS("1043")),
                            "kingaku"))]]

\* module_suiihyou.preprocess_csv: [df, sum_bs1043]
preprocess_csv(csv) ==
    LET NoSeries == <<>>
        df == SelectSeq(csv.rows, LAMBDA r : r.kamoku_code.prefix = "BS")
        actual_id_columns == columns_in(id_columns, csv.cols)
        raw == [i \in 1..Len(df) |->
                  [hizuke |-> NaT, code |-> df[i].code,
                   kamoku_code |-> df[i].kamoku_code, kingaku |-> NaN]]
        melted == df_melted(df, csv.value_columns)
        kept == SelectSeq(melted,
                    LAMBDA r : /\ r.kamoku_code \notin codes_to_delete
                               /\ r.taishougetsu.kind # "zenzan")
    IN  IF csv.absent \/ csv.rows = <<>> \/ "kamoku_code" \notin csv.cols
           \/ df = <<>>
        THEN [df |-> None, sum_bs1043 |-> NoSeries]
        ELSE IF csv.value_columns = <<>>
        THEN [df |-> DataFrame(actual_id_columns, raw), sum_bs1043 |-> NoSeries]
        ELSE IF kept = <<>>
        THEN [df |-> DataFrame(actual_id_columns \o <<"taishougetsu", "kingaku">>,
                               <<>>),
              sum_bs1043 |-> NoSeries]
        ELSE [df |->
                DataFrame(
                    columns_in(desired_order, csv.cols \cup {"hizuke", "kingaku"}),
                    [n \in 1..Len(kept) |->
                        [hizuke |-> to_datetime_coerce(kept[n].taishougetsu),
                         code |-> kept[n].code,
                         kamoku_code |-> kept[n].kamoku_code,
                         kingaku |-> kept[n].kingaku]]),
              sum_bs1043 |-> sum_bs1043_by_month(melted, csv.value_columns)]

-----------------------------------------------------------------------------
(* Source files given to the normalizers *)

\* a file that does not exist
AbsentFile ==
    [absent |-> TRUE, cols |-> {}, meta |-> [kind |-> "none", value |-> NaT],
     rows |-> <<>>]

\* the files given to the normalizer f
FilesOf(f) ==
    LET EmptyCell == [kind |-> "empty", value |-> 0]
        Word == [kind |-> "word", value |-> 0]
        \* amount cells: 100, "1,200", text that is no number, nothing
        AmountCells ==
            { [kind |-> "number", value |-> 100],
              [kind |-> "comma", value |-> 1200], Word, EmptyCell }
        \* department cells: a code, nothing
        CodeCells == {H102200, NaNCode}
        NoMeta == [kind |-> "none", value |-> NaT]
        \* the lists of at most n elements of S
        SeqsUpTo(S, n) == UNION { [1..k -> S] : k \in 0..n }
        \* files of a department, a name and an amount column, any missing
        ThreeColumnFiles(required, metas) ==
            UNION { { [absent |-> FALSE, cols |-> cs, meta |-> m, rows |-> r] :
                        m \in metas,
                        r \in SeqsUpTo(
                                [code : IF required[1] \in cs THEN CodeCells
                                        ELSE {NaNCode},
                                 kingaku : IF required[3] \in cs THEN AmountCells
                                           ELSE {EmptyCell}],
                                MaxRecs) } :
                    cs \in SUBSET {required[k] : k \in 1..Len(required)} }
        \* ledger lines of the two accounts: posting date (NaT: text that
        \* is no date), line number (for the first account also text that
        \* is no number), department, and the amount in the column the
        \* account uses
        LedgerLines ==
            [kamoku_code : {"109801"}, keijoubi : {20240805, 20240820, NaT},
             gyou : {[kind |-> "number", value |-> v] : v \in {1, 2}}
                    \cup {Word},
             code : {H102200},
             zandaka : AmountCells \ {Word},
             karikata_kingaku : {EmptyCell}]
            \cup
            [kamoku_code : {"491701"}, keijoubi : {20240805, 20240820, NaT},
             gyou : {[kind |-> "number", value |-> v] : v \in {1, 2}},
             code : CodeCells,
             zandaka : {EmptyCell},
             karikata_kingaku : AmountCells \ {Word, EmptyCell}]
        nine == {motocho_required_columns[k] :
                    k \in 1..Len(motocho_required_columns)}
        \* labels of value columns: carried forward, two months, other text
        zenzan == [kind |-> "zenzan", date |-> NaT]
        month08 == [kind |-> "month", date |-> 20240801]
        month09 == [kind |-> "month", date |-> 20240901]
        other_column == [kind |-> "other", date |-> NaT]
        ids == {id_columns[k] : k \in 1..Len(id_columns)}
        \* lines of the trial balance: department, one of three accounts,
        \* a cell per value column
        lines(cs, vc, n) ==
            SeqsUpTo([code : IF "code" \in cs THEN CodeCells ELSE {NaNCode},
                      kamoku_code : IF "kamoku_code" \in cs
                                    THEN {BS("1001"), BS("1043"),
                                          [prefix |-> "PL", number |-> "5001"]}
                                    ELSE {NaNKamoku},
                      cells : [1..Len(vc) ->
                                 {[kind |-> "number", value |-> 100], Word}]],
                     n)
    IN  {AbsentFile} \cup
        CASE f = "preprocess_shiharai_tegata" ->
                ThreeColumnFiles(tegata_required_columns, {NoMeta})
          [] f = "preprocess_yoshin" ->
                \* line 5 holds a date, or text that is no date
                ThreeColumnFiles(yoshin_required_columns,
                                 {[kind |-> "date", value |-> 20240831], NoMeta})
          [] f = "preprocess_zaiko_step1" ->
                \* line 1 holds a reference date, none, or the marker
                \* followed by text that is no date
                ThreeColumnFiles(zaiko_required_columns,
                                 {[kind |-> "date", value |-> 20240815], NoMeta,
                                  [kind |-> "bad", value |-> NaT]})
          [] f = "preprocess_motocho" ->
                \* all nine columns, or one of them missing
                { [absent |-> FALSE, cols |-> nine, meta |-> NoMeta, rows |-> r] :
                    r \in SeqsUpTo(LedgerLines, MaxRecs) }
                \cup
                { [absent |-> FALSE, cols |-> nine \ {c}, meta |-> NoMeta,
                   rows |-> <<>>] : c \in nine }
          [] f = "preprocess_csv" ->
                \* the id columns (or without the department, or the
                \* account code column) and value columns
                UNION { { [absent |-> FALSE, cols |-> ids, meta |-> NoMeta,
                           value_columns |-> vc, rows |-> r] :
                            r \in lines(ids, vc, MaxRecs) } :
                        vc \in { <<>>, <<zenzan>>, <<zenzan, month08>>,
                                 <<month08, month09>>, <<month08, other_column>> } }
                \cup
                UNION { { [absent |-> FALSE, cols |-> ids \ {c}, meta |-> NoMeta,
                           value_columns |-> <<month08>>, rows |-> r] :
                            r \in lines(ids \ {c}, <<month08>>, 1) } :
                        c \in {"code", "kamoku_code"} }

-----------------------------------------------------------------------------
(* Specification SpecNormalize: one of the five normalizers is called on a *)
(* source file                                                             *)

Normalizers ==
    {"preprocess_csv", "preprocess_yoshin", "preprocess_motocho",
     "preprocess_zaiko_step1", "preprocess_shiharai_tegata"}

InitNormalize ==
    /\ pc = "call_normalizer"
    /\ normalizer \in Normalizers
    /\ source_csv \in FilesOf(normalizer)
    /\ normalized = <<>>
    /\ target_date \in (IF normalizer = "preprocess_shiharai_tegata"
                        THEN TargetDates ELSE {example_date})
    /\ haihu_csv = [cols |-> <<>>]
    /\ df_haihu = None
    /\ merged_df = <<>>
    /\ classLoaded = TRUE
    /\ df_zen_kyoutuu = <<>>
    /\ df_basho_kyoutuu = <<>>
    /\ df_main_data = <<>>
    /\ allocation_results = <<>>
    /\ all_basho_haifu_dfs = <<>>
    /\ anchor_i = 1
    /\ df_allocated = [raised |-> FALSE, rows |-> <<>>]
    /\ run = 1
    /\ df_allocated_run1 = [raised |-> FALSE, rows |-> <<>>]
    /\ MainIdle

\* the variables a normalizer leaves alone
normalizer_frame ==
    <<haihu_csv, df_haihu, merged_df, classLoaded, df_zen_kyoutuu,
      df_basho_kyoutuu, df_main_data, allocation_results, all_basho_haifu_dfs,
      anchor_i, df_allocated, caller_vars, normalizer, source_csv, main_vars>>

\* app.py 45
CallPreprocessCsv ==
    /\ pc = "call_normalizer"
    /\ normalizer = "preprocess_csv"
    /\ normalized' = preprocess_csv(source_csv)
    /\ pc' = "normalizer_returned"
    /\ UNCHANGED normalizer_frame

\* app.py 67
CallPreprocessYoshin ==
    /\ pc = "call_normalizer"
    /\ normalizer = "preprocess_yoshin"
    /\ normalized' = preprocess_yoshin(source_csv)
    /\ pc' = "normalizer_returned"
    /\ UNCHANGED normalizer_frame

\* app.py 81
CallPreprocessMotocho ==
    /\ pc = "call_normalizer"
    /\ normalizer = "preprocess_motocho"
    /\ normalized' = preprocess_motocho(source_csv)
    /\ pc' = "normalizer_returned"
    /\ UNCHANGED normalizer_frame

\* app.py 97
CallPreprocessZaikoStep1 ==
    /\ pc = "call_normalizer"
    /\ normalizer = "preprocess_zaiko_step1"
    /\ normalized' = preprocess_zaiko_step1(source_csv)
    /\ pc' = "normalizer_returned"
    /\ UNCHANGED normalizer_frame

\* app.py 145
CallPreprocessShiharaiTegata ==
    /\ pc = "call_normalizer"
    /\ normalizer = "preprocess_shiharai_tegata"
    /\ normalized' = [df |-> preprocess_shiharai_tegata(source_csv, target_date)]
    /\ pc' = "normalizer_returned"
    /\ UNCHANGED normalizer_frame

NextNormalize ==
    \/ CallPreprocessCsv
    \/ CallPreprocessYoshin
    \/ CallPreprocessMotocho
    \/ CallPreprocessZaikoStep1
    \/ CallPreprocessShiharaiTegata

SpecNormalize == InitNormalize /\ [][NextNormalize]_vars

-----------------------------------------------------------------------------
(* Properties of the normalizers (checked under SpecNormalize) *)

NormalizerReturned == pc = "normalizer_returned"

\* the frames the normalizer has returned
ProducedFrames ==
    IF normalizer = "preprocess_motocho"
    THEN <<normalized.df_1, normalized.df_2>>
    ELSE <<normalized.df>>

\* the columns each normalizer names as required (for the trial balance,
\* the id columns)
RequiredColumns ==
    CASE normalizer = "preprocess_csv" -> id_columns
      [] normalizer = "preprocess_yoshin" -> yoshin_required_columns
      [] normalizer = "preprocess_motocho" -> motocho_required_columns
      [] normalizer = "preprocess_zaiko_step1" -> zaiko_required_columns
      [] normalizer = "preprocess_shiharai_tegata" -> tegata_required_columns

\* the source file exists and lacks a required column
RequiredColumnMissing ==
    /\ ~source_csv.absent
    /\ \E k \in 1..Len(RequiredColumns) : RequiredColumns[k] \notin source_csv.cols

\* C16: a normalizer called on a file that lacks at least one of its
\* required columns returns null or a table without rows.
C16_MissingColumnGivesEmpty ==
    (NormalizerReturned /\ RequiredColumnMissing) =>
        \A f \in 1..Len(ProducedFrames) :
            ProducedFrames[f].isNone \/ ProducedFrames[f].rows = <<>>

\* the amount is a float that is neither NaN nor infinite
IsFiniteNumber(v) == "d" \in DOMAIN v /\ v.d > 0

\* C19: every record a normalizer returns has a finite number as amount.
C19_AmountsFinite ==
    NormalizerReturned =>
        \A f \in 1..Len(ProducedFrames) :
            \A i \in 1..Len(ProducedFrames[f].rows) :
                IsFiniteNumber(ProducedFrames[f].rows[i].kingaku)

\* C20: no record a normalizer returns has a missing department code.
C20_DeptCodeNeverEmpty ==
    NormalizerReturned =>
        \A f \in 1..Len(ProducedFrames) :
            \A i \in 1..Len(ProducedFrames[f].rows) :
                ProducedFrames[f].rows[i].code \notin {NaNCode, <<>>}


-----------------------------------------------------------------------------
(* app.main from its first line: the sources are normalized and            *)
(* concatenated, the classification and the location are joined, the       *)
(* records are partitioned and allocated, and the final frame is merged,   *)
(* sorted and written.                                                     *)
(*                                                                         *)
(* A frame is [cols, rows]: cols the column names in order, rows records   *)
(* with a field per column the main function reads; the field of a column  *)
(* the frame does not have holds the missing value.                        *)

\* 'c' in df.columns
has_column(df, c) == \E k \in 1..Len(df.cols) : df.cols[k] = c

\* module_bs_classification.load_bs_classification: the four columns of the
\* table, None for a file that is absent or lacks one of them
load_bs_classification(csv) ==
    IF csv.absent
       \/ ~issubset(<<"kamoku_code", "bunrui1", "bunrui2", "bunrui3">>, csv)
    THEN None
    ELSE Frame(csv.rows)

\* module_location.load_location_data: the three columns of the table, None
\* for a file that is absent or lacks one of them
load_location_data(csv) ==
    IF csv.absent \/ ~issubset(<<"code", "bumon_mei", "basho">>, csv)
    THEN None
    ELSE Frame(csv.rows)

\* faulty variant: the ledger amount is added instead of subtracted
df_tokuhanzaiko_ledger_added(sum_bs1043, df_motocho_2, df_zaiko, zaiko_date) ==
    IF \/ df_motocho_2.isNone \/ df_motocho_2.rows = <<>>
       \/ df_zaiko.isNone \/ df_zaiko.rows = <<>>
    THEN <<>>
    ELSE << DataFrame(desired_order,
               <<[hizuke |-> zaiko_date,
                  code |-> H102200,
                  kamoku_code |-> BS("1043"),
                  kingaku |->
                     RAdd(RAdd(sum_bs1043, df_motocho_2.rows[1].kingaku),
                          RMul(Num(-1),
                               RSum(Column(df_zaiko.rows, "kingaku"))))]>>) >>

\* the record of the special-sales inventory (app.py 107-140): the BS1043
\* sum less the ledger amount less the total of the inventory; nothing
\* when the ledger record or the inventory is missing or empty
df_tokuhanzaiko(sum_bs1043, df_motocho_2, df_zaiko, zaiko_date) ==
    IF \/ df_motocho_2.isNone \/ df_motocho_2.rows = <<>>
       \/ df_zaiko.isNone \/ df_zaiko.rows = <<>>
    THEN <<>>
    ELSE LET motocho_value == df_motocho_2.rows[1].kingaku
             zaiko_total_value == RSum(Column(df_zaiko.rows, "kingaku"))
             tokuhanzaiko ==
                 RAdd(RAdd(sum_bs1043, RMul(Num(-1), motocho_value)),
                      RMul(Num(-1), zaiko_total_value))
         IN  << DataFrame(desired_order,
                   <<[hizuke |-> zaiko_date,
                      code |-> H102200,
                      kamoku_code |-> BS("1043"),
                      kingaku |-> tokuhanzaiko]>>) >>

\* app.py 38-149: the list all_dataframes after the five stages and the
\* derived record; raised: the trial-balance frame has no date column and
\* line 52 raises KeyError, which main does not handle
all_dataframes_of(files, date) ==
    LET suiihyou == preprocess_csv(files.suiihyou)
        series == suiihyou.sum_bs1043
        \* sum_bs1043_series.get(target_date, 0.0)
        sum_bs1043 ==
            IF ~suiihyou.df.isNone
               /\ \E m \in 1..Len(series) : series[m].hizuke = date
            THEN series[CHOOSE m \in 1..Len(series) :
                            series[m].hizuke = date].kingaku
            ELSE Zero
        yoshin == preprocess_yoshin(files.yoshin)
        motocho == preprocess_motocho(files.motocho)
        zaiko == preprocess_zaiko_step1(files.zaiko)
        df_tegata == preprocess_shiharai_tegata(files.tegata, date)
        appended(df) == IF df.isNone THEN <<>> ELSE <<df>>
        nonempty(df) == IF df.isNone \/ df.rows = <<>> THEN <<>> ELSE <<df>>
    IN  IF ~suiihyou.df.isNone /\ ~has_column(suiihyou.df, "hizuke")
        THEN [raised |-> TRUE, frames |-> <<>>]
        ELSE [raised |-> FALSE,
              frames |->
                 (IF suiihyou.df.isNone THEN <<>>
                  ELSE << DataFrame(suiihyou.df.cols,
                             SelectSeq(suiihyou.df.rows,
                                       LAMBDA r : r.hizuke = date)) >>)
                 \o appended(yoshin.df)
                 \o nonempty(motocho.df_1)
                 \o nonempty(motocho.df_2)
                 \o appended(zaiko.df)
                 \o df_tokuhanzaiko(sum_bs1043, motocho.df_2, zaiko.df, zaiko.date)
                 \o appended(df_tegata)]

\* pd.concat(frames, ignore_index=True): the rows one frame after the
\* other, the columns in the order they first appear
RECURSIVE concat(_)
concat(frames) ==
    IF frames = <<>> THEN DataFrame(<<>>, <<>>)
    ELSE LET first == Head(frames)
             rest == concat(Tail(frames))
         IN  DataFrame(
                first.cols \o SelectSeq(rest.cols, LAMBDA c : ~has_column(first, c)),
                first.rows \o rest.rows)

\* Series.astype(str) on a department code: a code is its text, NaN is 'nan'
astype_str_code(code) == IF code = NaNCode THEN <<"n", "a", "n">> ELSE code

\* pd.merge(left, right, on=key, how='left'): each row of left, in order,
\* once per row of right of the same key with the columns of that row, or
\* once with the missing values of nomatch when right has no such row
RECURSIVE merge_left(_, _, _, _)
merge_left(left, right, key, nomatch) ==
    IF left = <<>> THEN <<>>
    ELSE LET hits == SelectSeq(right, LAMBDA t : t[key] = Head(left)[key])
         IN  (IF hits = <<>> THEN << Head(left) @@ nomatch >>
              ELSE [k \in 1..Len(hits) |-> Head(left) @@ hits[k]])
             \o merge_left(Tail(left), right, key, nomatch)

\* the records as the partitioning and the allocation read them: the index
\* label, the department, the class2 tag, the location and the amount
\* (sum() skips NaN; the amounts are whole numbers)
indexed(df) ==
    [i \in 1..Len(df.rows) |->
        [idx |-> i,
         code |-> df.rows[i].code,
         bunrui2 |-> IF has_column(df, "bunrui2") THEN df.rows[i].bunrui2 ELSE "NaN",
         basho |-> df.rows[i].basho,
         kingaku |-> IF IsNaN(df.rows[i].kingaku) THEN 0
                     ELSE df.rows[i].kingaku.n \div df.rows[i].kingaku.d]]

\* faulty variant: the two columns are not dropped from the main data
columns_to_drop_none == {}

\* columns_to_drop of app.py 204
columns_to_drop == {"basho", "bumon_mei"}

\* faulty variant: the common records are left in the main data
final_data_parts_common_kept(merged, main_data, allocated) ==
    concat(
        << DataFrame(
              SelectSeq(merged.cols, LAMBDA c : c \notin columns_to_drop),
              [i \in 1..Len(merged.rows) |->
                  [f \in DOMAIN merged.rows[i] \ columns_to_drop |->
                      merged.rows[i][f]]]) >>
        \o (IF allocated = <<>> THEN <<>>
            ELSE << DataFrame(<<"hizuke", "code", "kingaku", "bunrui1", "bunrui2",
                                "bunrui3", "kamoku_code", "kamoku_mei">>,
                              allocated) >>))

\* faulty variant: the allocated rows are not appended to the main data
final_data_parts_main_only(merged, main_data, allocated) ==
    DataFrame(
        SelectSeq(merged.cols, LAMBDA c : c \notin columns_to_drop),
        [i \in 1..Len(main_data) |->
            LET r == merged.rows[main_data[i].idx]
            IN  [f \in DOMAIN r \ columns_to_drop |-> r[f]]])

\* app.py 205-236: the main data, with the columns of merged_df but the
\* dropped ones, and the allocated rows when there are any, with the
\* columns execute_allocation gives its frames, concatenated
final_data_parts(merged, main_data, allocated) ==
    LET allocated_columns ==
            <<"hizuke", "code", "kingaku", "bunrui1", "bunrui2", "bunrui3",
              "kamoku_code", "kamoku_mei">>
    IN
    concat(
        << DataFrame(
              SelectSeq(merged.cols, LAMBDA c : c \notin columns_to_drop),
              [i \in 1..Len(main_data) |->
                  LET r == merged.rows[main_data[i].idx]
                  IN  [f \in DOMAIN r \ columns_to_drop |-> r[f]]]) >>
        \o (IF allocated = <<>> THEN <<>>
            ELSE << DataFrame(allocated_columns, allocated) >>))

\* app.py 240-247: the department codes made text and the location table
\* joined, which adds the name and the location of the department
final_merge(df, location) ==
    IF location.isNone THEN df
    ELSE DataFrame(
            df.cols \o <<"bumon_mei", "basho">>,
            merge_left([i \in 1..Len(df.rows) |->
                           [df.rows[i] EXCEPT !.code = astype_str_code(@)]],
                       location.rows, "code",
                       [bumon_mei |-> "NaN", basho |-> "NaN"]))

\* the characters of the department codes, in the order of their code points
code_points ==
    <<"0", "1", "2", "3", "4", "5", "6", "7", "8", "9",
      "A", "B", "C", "D", "E", "F", "G", "H", "I", "J", "K", "L", "M",
      "N", "O", "P", "Q", "R", "S", "T", "U", "V", "W", "X", "Y", "Z",
      "a", "b", "c", "d", "e", "f", "g", "h", "i", "j", "k", "l", "m",
      "n", "o", "p", "q", "r", "s", "t", "u", "v", "w", "x", "y", "z">>

\* faulty variant: the frame is written in the order of the concatenation
sort_values_skipped(rows) == rows

\* DataFrame.sort_values(by=[hizuke, code], na_position='last'): a stable
\* sort by the date, the missing date last, then by the text of the
\* department code, compared character by character by code point
RECURSIVE sort_values(_)
sort_values(rows) ==
    LET ord(c) == CHOOSE k \in 1..Len(code_points) : code_points[k] = c
        \* the first position where two texts differ
        differ(a, b) ==
            CHOOSE k \in 1..(Len(a) + 1) :
                /\ \A j \in 1..(k - 1) : j <= Len(b) /\ a[j] = b[j]
                /\ k > Len(a) \/ k > Len(b) \/ a[k] # b[k]
        str_lt(a, b) ==
            LET k == differ(a, b)
            IN  IF k > Len(b) THEN FALSE
                ELSE IF k > Len(a) THEN TRUE
                ELSE ord(a[k]) < ord(b[k])
        date_lt(d, e) == d # NaT /\ (e = NaT \/ d < e)
        lt(r, s) ==
            \/ date_lt(r.hizuke, s.hizuke)
            \/ r.hizuke = s.hizuke /\ str_lt(r.code, s.code)
    IN  IF rows = <<>> THEN <<>>
        ELSE LET last == rows[Len(rows)]
                 sorted == sort_values(SubSeq(rows, 1, Len(rows) - 1))
                 k == Cardinality({i \in 1..Len(sorted) : ~lt(last, sorted[i])})
             IN  SubSeq(sorted, 1, k) \o <<last>>
                 \o SubSeq(sorted, k + 1, Len(sorted))

-----------------------------------------------------------------------------
(* Specification SpecMain: main() from its first line to the written file  *)

\* the files of a run: each source file is absent or holds a few lines,
\* the trial balance may also have no value column, the credit balance no
\* date in its head lines; each of the two tables is absent or loaded; the
\* location table may also place X999999 in the location-common and
\* H101210 in the store-wide departments
MainInputs ==
    LET number(v) == [kind |-> "number", value |-> v]
        empty == [kind |-> "empty", value |-> 0]
        NoMeta == [kind |-> "none", value |-> NaT]
        names(columns) == {columns[k] : k \in 1..Len(columns)}
        file(columns, meta, rows) ==
            [absent |-> FALSE, cols |-> names(columns), meta |-> meta,
             rows |-> rows]
        line(code, kamoku, cells) ==
            [code |-> code, kamoku_code |-> kamoku, cells |-> cells]
        amount(code, v) == [code |-> code, kingaku |-> number(v)]
        suiihyou(value_columns, rows) ==
            [absent |-> FALSE, cols |-> names(id_columns), meta |-> NoMeta,
             value_columns |-> value_columns, rows |-> rows]
        class(kamoku, bunrui1, bunrui2) ==
            [kamoku_code |-> kamoku, bunrui1 |-> bunrui1, bunrui2 |-> bunrui2,
             bunrui3 |-> ""]
        located == <<A900000, H100100, S200100, H102200>>
    IN  [suiihyou :
            { AbsentFile,
              suiihyou(<<[kind |-> "zenzan", date |-> NaT],
                         [kind |-> "month", date |-> 20240801],
                         [kind |-> "month", date |-> 20240901]>>,
                       << line(A900000, BS("1001"),
                               <<number(100), number(1000), number(200)>>),
                          line(H100100, BS("1201"),
                               <<number(100), number(5000), number(1000)>>),
                          line(H102200, BS("1001"),
                               <<number(100), number(200), number(200)>>),
                          line(H102200, BS("1043"),
                               <<number(100), number(1200), number(100)>>) >>),
              suiihyou(<<>>, << line(H102200, BS("1001"), <<>>) >>) },
         yoshin :
            { AbsentFile }
            \cup { file(yoshin_required_columns, meta,
                        << amount(S200100, 200), amount(NaNCode, 100),
                           amount(H102200, 100) >>) :
                     meta \in {[kind |-> "date", value |-> 20240831], NoMeta} },
         motocho :
            { AbsentFile,
              file(motocho_required_columns, NoMeta,
                   << [kamoku_code |-> "109801", keijoubi |-> 20240805,
                       gyou |-> number(1), code |-> H102200,
                       zandaka |-> number(100), karikata_kingaku |-> empty],
                      [kamoku_code |-> "491701", keijoubi |-> 20240820,
                       gyou |-> number(2), code |-> H102200,
                       zandaka |-> empty, karikata_kingaku |-> number(100)] >>) },
         zaiko :
            { AbsentFile,
              file(zaiko_required_columns, [kind |-> "date", value |-> 20240815],
                   << amount(X999999, 200), amount(H102200, 100) >>) },
         tegata :
            { AbsentFile,
              file(tegata_required_columns, NoMeta,
                   << amount(NaNCode, 100), amount(A900000, 200) >>) },
         classification :
            { AbsentFile,
              file(<<"kamoku_code", "bunrui1", "bunrui2", "bunrui3">>, NoMeta,
                   << class(BS("1001"), "untenshihon", "untenshihon(shisan)"),
                      class(BS("2003"), "untenshihon", "untenshihon(fusai)"),
                      class(BS("1201"), "koteishisan", "koteishisan(shisan)"),
                      class(BS("1043"), "untenshihon", "untenshihon(shisan)") >>) },
         location :
            { AbsentFile }
            \cup { file(<<"code", "bumon_mei", "basho">>, NoMeta,
                        [k \in 1..Len(located) |->
                            [code |-> located[k],
                             bumon_mei |-> [of |-> located[k]],
                             basho |-> df_location[located[k]]]]
                        \o more) :
                     more \in { <<>>,
                                << [code |-> X999999,
                                    bumon_mei |-> [of |-> X999999],
                                    basho |-> "basho_kyoutuu"],
                                   [code |-> H101210,
                                    bumon_mei |-> [of |-> H101210],
                                    basho |-> "zen_kyoutuu"] >> } }]

\* the ratio file of a run is absent, of three mapped departments, or of
\* an unmapped one
InitMain ==
    /\ pc = "normalize"
    /\ inputs \in MainInputs
    /\ haihu_csv \in
          { [cols |-> <<>>],
            [cols |-> <<Col(H102200, 7), Col(H101100, 3), Col(S202100, 10)>>],
            [cols |-> <<Col(X999999, 5)>>] }
    /\ target_date \in TargetDates
    /\ all_dataframes = <<>>
    /\ merged_all = <<>>
    /\ location_df = None
    /\ final_df = <<>>
    /\ written = FALSE
    /\ df_haihu = None
    /\ merged_df = <<>>
    /\ classLoaded = FALSE
    /\ df_zen_kyoutuu = <<>>
    /\ df_basho_kyoutuu = <<>>
    /\ df_main_data = <<>>
    /\ allocation_results = <<>>
    /\ all_basho_haifu_dfs = <<>>
    /\ anchor_i = 1
    /\ df_allocated = [raised |-> FALSE, rows |-> <<>>]
    /\ run = 1
    /\ df_allocated_run1 = [raised |-> FALSE, rows |-> <<>>]
    /\ NormalizerIdle

\* the variables the steps of main() around the allocation leave alone
main_frame ==
    <<haihu_csv, df_haihu, df_zen_kyoutuu, df_basho_kyoutuu, df_main_data,
      allocation_results, all_basho_haifu_dfs, anchor_i, df_allocated,
      caller_vars, normalizer_vars, inputs>>

\* app.py 38-149: the five stages and the derived record
RunNormalizers ==
    /\ pc = "normalize"
    /\ LET res == all_dataframes_of(inputs, target_date)
       IN  /\ all_dataframes' = res.frames
           /\ pc' = IF res.raised THEN "raised" ELSE "concat"
    /\ UNCHANGED <<main_frame, merged_df, classLoaded, merged_all, location_df,
                   final_df, written>>

\* app.py 151-160: nothing to merge is reported, else the frames are
\* concatenated
ConcatAll ==
    /\ pc = "concat"
    /\ IF all_dataframes = <<>>
       THEN pc' = "no_data" /\ UNCHANGED merged_all
       ELSE pc' = "merge_classification"
            /\ merged_all' = concat(all_dataframes)
    /\ UNCHANGED <<main_frame, merged_df, classLoaded, all_dataframes,
                   location_df, final_df, written>>

\* app.py 162-180: the classification table is loaded and joined by the
\* account code; line 169 raises KeyError when merged_df has no such column
MergeClassification ==
    /\ pc = "merge_classification"
    /\ LET df_classification == load_bs_classification(inputs.classification)
       IN  IF df_classification.isNone
           THEN /\ pc' = "merge_location"
                /\ UNCHANGED <<merged_all, classLoaded>>
           ELSE IF ~has_column(merged_all, "kamoku_code")
           THEN /\ pc' = "raised"
                /\ UNCHANGED <<merged_all, classLoaded>>
           ELSE /\ pc' = "merge_location"
                /\ classLoaded' = TRUE
                /\ merged_all' =
                      DataFrame(
                          merged_all.cols \o <<"bunrui1", "bunrui2", "bunrui3">>,
                          merge_left(merged_all.rows, df_classification.rows,
                                     "kamoku_code",
                                     [bunrui1 |-> "NaN", bunrui2 |-> "NaN",
                                      bunrui3 |-> "NaN"]))
    /\ UNCHANGED <<main_frame, merged_df, all_dataframes, location_df,
                   final_df, written>>

\* app.py 182-205: the location table is loaded and its location joined by
\* the department code made text. KeyError is raised by line 189 when
\* merged_df has no department code, by line 198 when the table was not
\* loaded (there is no location column), by line 205 when merged_df has no
\* department name to drop
MergeLocation ==
    /\ pc = "merge_location"
    /\ location_df' = load_location_data(inputs.location)
    /\ IF \/ location_df'.isNone
          \/ ~has_column(merged_all, "code")
          \/ ~has_column(merged_all, "bumon_mei")
       THEN /\ pc' = "raised"
            /\ UNCHANGED <<merged_all, merged_df>>
       ELSE /\ pc' = "partition"
            /\ merged_all' =
                  DataFrame(
                      merged_all.cols \o <<"basho">>,
                      merge_left(
                          [i \in 1..Len(merged_all.rows) |->
                              [merged_all.rows[i] EXCEPT
                                  !.code = astype_str_code(@)]],
                          [k \in 1..Len(location_df'.rows) |->
                              [code |-> location_df'.rows[k].code,
                               basho |-> location_df'.rows[k].basho]],
                          "code", [basho |-> "NaN"]))
            /\ merged_df' = indexed(merged_all')
    /\ UNCHANGED <<main_frame, classLoaded, all_dataframes, final_df, written>>

\* app.py 233-250: the parts are concatenated, the name and the location of
\* the department are joined, the frame is sorted; sort_values raises
\* KeyError when the frame has no date column
FinalMerge ==
    /\ pc \in {"allocated", "allocation_skipped"}
    /\ inputs # <<>>
    /\ LET df == final_merge(
                    final_data_parts(merged_all, df_main_data, df_allocated.rows),
                    location_df)
       IN  IF has_column(df, "hizuke") /\ has_column(df, "code")
           THEN /\ pc' = "export"
                /\ final_df' = DataFrame(df.cols, sort_values(df.rows))
           ELSE /\ pc' = "raised"
                /\ UNCHANGED final_df
    /\ UNCHANGED <<main_frame, merged_df, classLoaded, all_dataframes,
                   merged_all, location_df, written>>

\* app.py 252-257: combined_data.csv is written
Export ==
    /\ pc = "export"
    /\ written' = TRUE
    /\ pc' = "done"
    /\ UNCHANGED <<main_frame, merged_df, classLoaded, all_dataframes,
                   merged_all, location_df, final_df>>

NextMain ==
    \/ RunNormalizers
    \/ ConcatAll
    \/ MergeClassification
    \/ MergeLocation
    \/ Partition
    \/ LoadHaihu
    \/ CallExecuteAllocation
    \/ SkipAllocation
    \/ ZenUntenshihon
    \/ ZenKoteishisan
    \/ BashoAnchor
    \/ ReturnAllocation
    \/ FinalMerge
    \/ Export

SpecMain == InitMain /\ [][NextMain]_vars


-----------------------------------------------------------------------------
(* Claims on main(), checked under SpecMain *)

\* the five source exports
Sources == {"suiihyou", "yoshin", "motocho", "zaiko", "tegata"}

\* the input files of the run that do not exist
AbsentInputs ==
    {f \in DOMAIN inputs : inputs[f].absent}
    \cup (IF haihu_csv.cols = <<>> THEN {"haihu"} ELSE {})

\* each file that exists has the columns its stage needs
FilesWellFormed ==
    inputs.suiihyou.absent \/ inputs.suiihyou.value_columns # <<>>

\* C14: when exactly one of the input files (a source export, the ratio
\* table, the classification table, the location table) is absent and the
\* others are well formed, main() never stops on an exception.
C14_MissingFileNeverAborts ==
    (inputs # <<>> /\ Cardinality(AbsentInputs) = 1 /\ FilesWellFormed)
        => pc # "raised"

\* C15: when all five source files are absent, main() reports that there is
\* nothing to merge and stops there: it goes on to no later step, raises
\* nothing and writes no file.
C15_EmptyFinalResult ==
    (inputs # <<>> /\ \A f \in Sources : inputs[f].absent)
        => pc \in {"normalize", "concat", "no_data"} /\ ~written

nan == <<"n", "a", "n">>

\* a text is before another or equal to it, character by character by code
\* point, a prefix before its extensions
RECURSIVE TextLeq(_, _)
TextLeq(a, b) ==
    IF a = <<>> THEN TRUE
    ELSE IF b = <<>> THEN FALSE
    ELSE LET ord(c) == CHOOSE k \in 1..Len(code_points) : code_points[k] = c
         IN  IF Head(a) = Head(b) THEN TextLeq(Tail(a), Tail(b))
             ELSE ord(Head(a)) < ord(Head(b))

\* C18: in the sorted final frame the dates ascend, the rows without a date
\* come after all the rows that have one; among the rows of one date the
\* department codes ascend, the rows without a department code after the
\* rows that have one.
C18_OutputSorted ==
    pc \in {"export", "done"} =>
        \A i, j \in 1..Len(final_df.rows) :
            i < j =>
                LET r == final_df.rows[i]
                    s == final_df.rows[j]
                IN  /\ r.hizuke = NaT => s.hizuke = NaT
                    /\ (r.hizuke # NaT /\ s.hizuke # NaT) => r.hizuke <= s.hizuke
                    /\ r.hizuke = s.hizuke =>
                          /\ r.code = nan => s.code = nan
                          /\ TextLeq(r.code, s.code)

\* the sort has moved rows, and the frame has rows of two dates, a row
\* without a date and a row without a department code
C18_Witness ==
    /\ pc = "done"
    /\ final_df.rows #
          final_merge(final_data_parts(merged_all, df_main_data, df_allocated.rows),
                      location_df).rows
    /\ \E i, j \in 1..Len(final_df.rows) :
          /\ final_df.rows[i].hizuke # NaT
          /\ final_df.rows[j].hizuke # NaT
          /\ final_df.rows[i].hizuke # final_df.rows[j].hizuke
    /\ \E i \in 1..Len(final_df.rows) : final_df.rows[i].hizuke = NaT
    /\ \E i, j \in 1..Len(final_df.rows) :
          /\ final_df.rows[i].code = nan
          /\ final_df.rows[j].code # nan
          /\ final_df.rows[i].hizuke = final_df.rows[j].hizuke


-----------------------------------------------------------------------------
(* The prefixes of the anchors and the groups of the mapping (checked      *)
(* under SpecHaihu)                                                        *)

\* the location group of each anchor: head office and Tokyo, Sapporo,
\* Osaka, Fukuoka
GroupOfAnchor ==
    (H100100 :> group_map[H102200])
    @@ (S200100 :> group_map[S202100])
    @@ (O500100 :> group_map[O502100])
    @@ (F600100 :> group_map[F602100])

\* C23: the rows of the ratio table an anchor selects by its prefix of
\* three characters are exactly the rows of the location group of that
\* anchor, and every department of the mapping is selected by exactly one
\* of the four anchors.
C23_PrefixGroupConsistency ==
    /\ (Returned /\ ~df_haihu.isNone) =>
          \A a \in Anchors :
              df_haihu_target(df_haihu, a)
                 = RowsOfGroup(df_haihu.rows, GroupOfAnchor[a])
    /\ \A c \in DOMAIN group_map :
          Cardinality({a \in Anchors : startswith(c, prefix3(a))}) = 1
    /\ \A a, b \in Anchors : GroupOfAnchor[a] = GroupOfAnchor[b] => a = b

\* the table has two rows of the head-office group, which the anchor
\* H100100 selects, and a row of the Sapporo group, which S200100 selects
C23_Witness ==
    /\ Returned
    /\ ~df_haihu.isNone
    /\ Len(df_haihu_target(df_haihu, H100100)) = 2
    /\ Len(df_haihu_target(df_haihu, S200100)) = 1


-----------------------------------------------------------------------------
(* The record the ledger normalizer selects (checked under SpecNormalize)  *)

\* the number an amount cell stands for: separators removed, 0 for a cell
\* that is empty or no number
CellAmount(cell) ==
    IF cell.kind \in {"number", "comma"} THEN Num(cell.value) ELSE Zero

\* the positions of the lines of an account in the ledger file
LinesOf(kamoku) ==
    {i \in 1..Len(source_csv.rows) : source_csv.rows[i].kamoku_code = kamoku}

\* the date and the line number of line i of the file both parse
Parses(i) ==
    /\ source_csv.rows[i].keijoubi # NaT
    /\ source_csv.rows[i].gyou.kind = "number"

\* line i is the latest of its account: no parsed line of the account has a
\* later date, or the same date and a greater line number, and no parsed
\* line before it in the file has the same date and line number
Latest(i, kamoku) ==
    /\ i \in LinesOf(kamoku)
    /\ Parses(i)
    /\ \A j \in LinesOf(kamoku) :
          Parses(j) =>
             LET r == source_csv.rows[i]
                 s == source_csv.rows[j]
             IN  \/ s.keijoubi < r.keijoubi
                 \/ s.keijoubi = r.keijoubi /\ s.gyou.value < r.gyou.value
                 \/ s.keijoubi = r.keijoubi /\ s.gyou.value = r.gyou.value /\ i <= j

\* the ledger normalizer has returned the frames of a file of nine columns
MotochoReturned ==
    /\ NormalizerReturned
    /\ normalizer = "preprocess_motocho"
    /\ ~normalized.df_1.isNone

\* C24: for each of the accounts 109801 and 491701 the ledger normalizer
\* gives no record when no line of the account parses, and else one record,
\* made of the latest line of the account: the month of its date, the
\* balance for 109801, the department and the negated debit for 491701.
C24_LedgerSelection ==
    MotochoReturned =>
        /\ IF \E i \in LinesOf("109801") : Parses(i)
           THEN /\ Len(normalized.df_1.rows) = 1
                /\ \E i \in LinesOf("109801") :
                      /\ Latest(i, "109801")
                      /\ normalized.df_1.rows[1].hizuke
                            = (source_csv.rows[i].keijoubi \div 100) * 100 + 1
                      /\ normalized.df_1.rows[1].kingaku
                            = CellAmount(source_csv.rows[i].zandaka)
           ELSE normalized.df_1.rows = <<>>
        /\ IF \E i \in LinesOf("491701") : Parses(i)
           THEN /\ Len(normalized.df_2.rows) = 1
                /\ \E i \in LinesOf("491701") :
                      /\ Latest(i, "491701")
                      /\ normalized.df_2.rows[1].hizuke
                            = (source_csv.rows[i].keijoubi \div 100) * 100 + 1
                      /\ normalized.df_2.rows[1].code = source_csv.rows[i].code
                      /\ normalized.df_2.rows[1].kingaku
                            = RMul(Num(-1),
                                   CellAmount(source_csv.rows[i].karikata_kingaku))
           ELSE normalized.df_2.rows = <<>>

\* two lines of the account 109801 have the same date and line number and
\* different balances, and the first of them has been selected
C24_Witness ==
    /\ MotochoReturned
    /\ Len(source_csv.rows) = 2
    /\ source_csv.rows[1].kamoku_code = "109801"
    /\ source_csv.rows[2].kamoku_code = "109801"
    /\ Parses(1)
    /\ source_csv.rows[1].keijoubi = source_csv.rows[2].keijoubi
    /\ source_csv.rows[1].gyou = source_csv.rows[2].gyou
    /\ source_csv.rows[1].zandaka.kind = "number"
    /\ source_csv.rows[2].zandaka.kind = "comma"
    /\ normalized.df_1.rows[1].kingaku = Num(100)


-----------------------------------------------------------------------------
(* The derived record of main() (checked under SpecMain)                   *)

\* the five stages of main() have run
StagesDone == all_dataframes # <<>>

\* the sum of the cells of the account BS1043 of the trial-balance file in
\* the column of the target month, 0 when there is no such file or column
TargetMonthBs1043 ==
    IF inputs.suiihyou.absent THEN Zero
    ELSE LET csv == inputs.suiihyou
             months == {k \in 1..Len(csv.value_columns) :
                           /\ csv.value_columns[k].kind = "month"
                           /\ csv.value_columns[k].date = target_date}
             lines == SelectSeq(csv.rows, LAMBDA r : r.kamoku_code = BS("1043"))
         IN  IF months = {} THEN Zero
             ELSE LET k == CHOOSE k \in months : TRUE
                  IN  Num(SumInts([i \in 1..Len(lines) |-> lines[i].cells[k].value]))

\* the frames the ledger and the inventory normalizers give this run
LedgerFrames == preprocess_motocho(inputs.motocho)
Inventory == preprocess_zaiko_step1(inputs.zaiko)

\* the ledger record of 491701 and the inventory records both exist
DerivedInputsPresent ==
    /\ ~LedgerFrames.df_2.isNone /\ LedgerFrames.df_2.rows # <<>>
    /\ ~Inventory.df.isNone /\ Inventory.df.rows # <<>>

\* the number of frames the normalizers put in the list before the derived
\* record: the trial balance, the credit balances and the inventory when
\* their frame exists, each ledger frame when it has a record
SourceFrameCount ==
    LET one(b) == IF b THEN 1 ELSE 0
    IN  one(~preprocess_csv(inputs.suiihyou).df.isNone)
        + one(~preprocess_yoshin(inputs.yoshin).df.isNone)
        + one(~LedgerFrames.df_1.isNone /\ LedgerFrames.df_1.rows # <<>>)
        + one(~LedgerFrames.df_2.isNone /\ LedgerFrames.df_2.rows # <<>>)
        + one(~Inventory.df.isNone)

\* the records of the list between the frames of the normalizers and the
\* frame of the notes payable, which is always the last one
DerivedRecords ==
    concat(SubSeq(all_dataframes, SourceFrameCount + 1,
                  Len(all_dataframes) - 1)).rows

\* C25: once the stages have run, the list of frames holds a derived record
\* if and only if the ledger record of 491701 and the inventory records
\* both exist; it is then one record, dated the month start of the
\* inventory file, of amount BS1043 sum of the target month - ledger
\* amount as normalized - total of the inventory.
C25_DerivedMetric ==
    StagesDone =>
        IF DerivedInputsPresent
        THEN /\ Len(DerivedRecords) = 1
             /\ DerivedRecords[1].code = H102200
             /\ DerivedRecords[1].kamoku_code = BS("1043")
             /\ DerivedRecords[1].hizuke = Inventory.date
             /\ DerivedRecords[1].kingaku =
                   RAdd(RAdd(TargetMonthBs1043,
                             RMul(Num(-1), LedgerFrames.df_2.rows[1].kingaku)),
                        RMul(Num(-1), RSum(Column(Inventory.df.rows, "kingaku"))))
        ELSE DerivedRecords = <<>>

\* a derived record of 1200 - (-100) - 300 = 1000 is in the list
C25_Witness ==
    /\ StagesDone
    /\ DerivedInputsPresent
    /\ TargetMonthBs1043 = Num(1200)
    /\ Len(DerivedRecords) = 1
    /\ DerivedRecords[1].kingaku = Num(1000)


-----------------------------------------------------------------------------
(* The final merge of main() (checked under SpecMain; the location table   *)
(* maps a department code to one name and one location)                    *)

\* the final frame has been built
FinalBuilt == pc \in {"export", "done"}

\* a record without the name and the location of its department, its
\* department code as text
Stripped(r) ==
    [f \in DOMAIN r \ {"bumon_mei", "basho"} |->
        IF f = "code" THEN astype_str_code(r[f]) ELSE r[f]]

\* the records of the normal partition, then the allocated records
SourceRows ==
    [i \in 1..Len(df_main_data) |->
        Stripped(merged_all.rows[df_main_data[i].idx])]
    \o [k \in 1..Len(df_allocated.rows) |-> Stripped(df_allocated.rows[k])]

\* how many records of rows are the record s
Occurrences(rows, s) == Cardinality({i \in 1..Len(rows) : rows[i] = s})

\* how many columns of the final frame are named c
ColumnCount(c) ==
    Cardinality({k \in 1..Len(final_df.cols) : final_df.cols[k] = c})

\* C22: the final frame has one name column and one location column; its
\* records are, record for record and as often, the records of the normal
\* partition and the allocated records, none of them a record of a common
\* location; each carries the name and the location of the row of the
\* location table of its department code, or none when there is no such row.
C22_FinalMerge ==
    FinalBuilt =>
        /\ ColumnCount("bumon_mei") = 1
        /\ ColumnCount("basho") = 1
        /\ Len(final_df.rows) = Len(df_main_data) + Len(df_allocated.rows)
        /\ LET final == [i \in 1..Len(final_df.rows) |-> Stripped(final_df.rows[i])]
           IN  \A i \in 1..Len(final) :
                  Occurrences(final, final[i]) = Occurrences(SourceRows, final[i])
        /\ \A i \in 1..Len(df_main_data) :
              merged_all.rows[df_main_data[i].idx].basho
                 \notin {"zen_kyoutuu", "basho_kyoutuu"}
        /\ \A i \in 1..Len(final_df.rows) :
              LET r == final_df.rows[i]
                  hits == SelectSeq(location_df.rows, LAMBDA t : t.code = r.code)
              IN  IF hits = <<>>
                  THEN r.bumon_mei = "NaN" /\ r.basho = "NaN"
                  ELSE r.bumon_mei = hits[1].bumon_mei /\ r.basho = hits[1].basho

\* a run wrote normal and allocated records, common records were set
\* apart, one record has a row in the location table and one has none
C22_Witness ==
    /\ pc = "done"
    /\ df_main_data # <<>>
    /\ df_allocated.rows # <<>>
    /\ df_zen_kyoutuu # <<>>
    /\ df_basho_kyoutuu # <<>>
    /\ \E i \in 1..Len(final_df.rows) : final_df.rows[i].basho = "NaN"
    /\ \E i \in 1..Len(final_df.rows) : final_df.rows[i].basho = "tokyo"


-----------------------------------------------------------------------------
(* Best-effort tagging in main() (checked under SpecMain)                  *)

\* the records have been tagged with their classes and their location
Tagged == merged_all # <<>> /\ has_column(merged_all, "basho")

\* the table has a row of that key
HasRow(table, key, value) ==
    \E k \in 1..Len(table.rows) : table.rows[k][key] = value

\* C21: every record of the sources is kept by the two joins, with missing
\* classes when the classification table has no row of its account and a
\* missing location when the location table has no row of its department;
\* and a run that has records never stops on an exception, whether the
\* classification and the location information exist or not.
C21_BestEffortTagging ==
    /\ Tagged =>
          LET source == concat(all_dataframes).rows
              classification == load_bs_classification(inputs.classification)
          IN  /\ Len(merged_all.rows) = Len(source)
              /\ \A i \in 1..Len(source) :
                    LET r == merged_all.rows[i]
                    IN  /\ r.kingaku = source[i].kingaku
                        /\ r.kamoku_code = source[i].kamoku_code
                        /\ r.code = astype_str_code(source[i].code)
                        /\ ~HasRow(location_df, "code", r.code) => r.basho = "NaN"
                        /\ (classLoaded
                            /\ ~HasRow(classification, "kamoku_code", r.kamoku_code))
                              => r.bunrui2 = "NaN"
    /\ (/\ inputs # <<>>
        /\ FilesWellFormed
        /\ \E f \in Sources : ~inputs[f].absent)
          => pc # "raised"

\* with both tables present a run that has records raises nothing: every
\* exception of such a run comes from an absent table
BothTablesPresentNeverRaises ==
    (/\ inputs # <<>>
     /\ FilesWellFormed
     /\ \E f \in Sources : ~inputs[f].absent
     /\ ~inputs.classification.absent
     /\ ~inputs.location.absent)
       => pc # "raised"


-----------------------------------------------------------------------------
(* Conservation of the allocated amounts (checked under Spec)              *)

\* the sum of the amounts of rows
Emitted(rows) == RSum(Column(rows, "kingaku"))

\* C26 as stated: the rows emitted for a pair sum to the net subtotal of the
\* pair, store-wide when the raw weights of the ratio table do not sum to
\* 0, for an anchor when the raw weights of its location group do not sum
\* to 0.
C26_Original_Conservation ==
    Allocated =>
        \A p \in Pairs :
            /\ (OutZen(p) # <<>> /\ KeptWeight(haihu_csv) # 0) =>
                  Emitted(OutZen(p)) = Num(Net(df_zen_kyoutuu, p))
            /\ \A a \in Anchors :
                  (/\ OutAnchor(a, p) # <<>>
                   /\ GroupWeight(haihu_csv, GroupOfAnchor[a]) # 0) =>
                      Emitted(OutAnchor(a, p)) = Num(Net(RowsOfAnchor(a), p))

\* C26 amended: the rows emitted for a pair sum to the net subtotal of the
\* pair, store-wide when the raw weights of the ratio table do not sum to
\* 0, for an anchor when neither the raw weights of the ratio table nor
\* those of its location group sum to 0.
C26_Conservation ==
    Allocated =>
        \A p \in Pairs :
            /\ (OutZen(p) # <<>> /\ KeptWeight(haihu_csv) # 0) =>
                  Emitted(OutZen(p)) = Num(Net(df_zen_kyoutuu, p))
            /\ \A a \in Anchors :
                  (/\ OutAnchor(a, p) # <<>>
                   /\ KeptWeight(haihu_csv) # 0
                   /\ GroupWeight(haihu_csv, GroupOfAnchor[a]) # 0) =>
                      Emitted(OutAnchor(a, p)) = Num(Net(RowsOfAnchor(a), p))

\* rows of unequal amounts were emitted store-wide and for the anchor
\* H100100, and each set sums to a net subtotal that is not 0
C26_Witness ==
    /\ Allocated
    /\ KeptWeight(haihu_csv) # 0
    /\ GroupWeight(haihu_csv, "honten_tokyo") # 0
    /\ \E p \in Pairs :
          /\ Len(OutZen(p)) > 1
          /\ OutZen(p)[1].kingaku # OutZen(p)[2].kingaku
          /\ Emitted(OutZen(p)) = Num(Net(df_zen_kyoutuu, p))
          /\ Net(df_zen_kyoutuu, p) # 0
    /\ \E p \in Pairs :
          /\ Len(OutAnchor(H100100, p)) > 1
          /\ Emitted(OutAnchor(H100100, p)) = Num(Net(RowsOfAnchor(H100100), p))
          /\ Net(RowsOfAnchor(H100100), p) # 0


-----------------------------------------------------------------------------
(* Distribution by a ratio table whose weights sum to 0 (checked under     *)
(* Spec)                                                                   *)

\* the ratio table was loaded, it has rows and its raw weights sum to 0
ZeroWeightTable ==
    /\ ~df_haihu.isNone
    /\ df_haihu.rows # <<>>
    /\ KeptWeight(haihu_csv) = 0

\* sel is one row per row of targets, in order, each with the department of
\* its target and the amount 0
OneZeroPerTarget(sel, targets) ==
    /\ Len(sel) = Len(targets)
    /\ \A i \in 1..Len(targets) :
          /\ sel[i].code = targets[i].code
          /\ sel[i].kingaku = Zero

\* C27: with a ratio table that has rows and raw weights summing to 0, and
\* the class columns present, the run raises nothing, and once
\* execute_allocation has returned every pair whose net subtotal is not 0,
\* store-wide or over the rows of an anchor, has one allocated row per
\* ratio-table row (of the anchor's family for an anchor), each of amount 0.
C27_ZeroWeightDistribution ==
    (ZeroWeightTable /\ classLoaded) =>
        /\ pc # "raised"
        /\ Allocated =>
              \A p \in Pairs :
                  /\ Net(df_zen_kyoutuu, p) # 0 =>
                        OneZeroPerTarget(OutZen(p), df_haihu.rows)
                  /\ \A a \in Anchors :
                        Net(RowsOfAnchor(a), p) # 0 =>
                            OneZeroPerTarget(OutAnchor(a, p), TargetsOfAnchor(a))

\* a store-wide net subtotal that is not 0 was distributed by a table of
\* two rows whose weights sum to 0: two rows of amount 0
C27_Witness ==
    /\ Allocated
    /\ ZeroWeightTable
    /\ Len(df_haihu.rows) = 2
    /\ \E p \in Pairs :
          /\ Net(df_zen_kyoutuu, p) # 0
          /\ Len(OutZen(p)) = 2
          /\ \A i \in 1..2 : OutZen(p)[i].kingaku = Zero


-----------------------------------------------------------------------------
(* A run of main() without ratio table (checked under SpecMain)            *)

\* preprocess_haihu gave no table, or a table without rows
NoRatioTable == inputs # <<>> /\ ~haihu_usable(df_haihu)

\* C29: a run of main() whose ratio table is missing or empty never enters
\* execute_allocation and allocates nothing; the final frame it builds
\* holds, record for record and as often, the records of the normal
\* partition and nothing else: as many records as were merged less the
\* records of the two common partitions.
C29_RatioTableUnavailable ==
    NoRatioTable =>
        /\ pc \notin {"zen_untenshihon", "zen_koteishisan", "basho_loop", "allocated"}
        /\ allocation_results = <<>>
        /\ all_basho_haifu_dfs = <<>>
        /\ df_allocated.rows = <<>>
        /\ FinalBuilt =>
              LET final == [i \in 1..Len(final_df.rows) |-> Stripped(final_df.rows[i])]
                  normal == [i \in 1..Len(df_main_data) |->
                                Stripped(merged_all.rows[df_main_data[i].idx])]
              IN  /\ Len(final) = Len(normal)
                  /\ Len(final) = Len(merged_all.rows) - Len(df_zen_kyoutuu)
                                     - Len(df_basho_kyoutuu)
                  /\ \A i \in 1..Len(final) :
                        Occurrences(final, final[i]) = Occurrences(normal, final[i])

\* a run without ratio table has written its normal records after setting
\* store-wide and location-common records apart
C29_Witness ==
    /\ NoRatioTable
    /\ pc = "done"
    /\ df_zen_kyoutuu # <<>>
    /\ df_basho_kyoutuu # <<>>
    /\ df_main_data # <<>>
    /\ Len(final_df.rows) = Len(df_main_data)


-----------------------------------------------------------------------------
(* Common records that no block of execute_allocation reads (checked       *)
(* under SpecMain)                                                         *)

\* the four class2 tags the subtotals are taken over
FourTags ==
    {"untenshihon(shisan)", "untenshihon(fusai)",
     "koteishisan(shisan)", "koteishisan(fusai)"}

\* a common record of none of the four tags, or a location-common record
\* of a department that is no anchor
Unread(r) ==
    \/ r.bunrui2 \notin FourTags
    \/ r.basho = "basho_kyoutuu" /\ r.code \notin Anchors

UnreadRecords == SelectSeq(df_zen_kyoutuu \o df_basho_kyoutuu, Unread)
ReadRecords(df) == SelectSeq(df, LAMBDA r : ~Unread(r))

\* the ratio of the row of the ratio table of a department
RatioOf(code, ratio) ==
    df_haihu.rows[CHOOSE i \in 1..Len(df_haihu.rows) :
                      df_haihu.rows[i].code = code][ratio]

\* C28: in the final frame of a run, every allocated amount is the share
\* of a net subtotal taken over the common records other than those of
\* none of the four tags and the location-common ones of a department
\* that is no anchor; none of these records is in the normal partition,
\* and the final frame holds a record like it only as often as the normal
\* partition does.
C28_UnreadCommonRecords ==
    FinalBuilt =>
        /\ \A k \in 1..Len(Out) :
              \E p \in Pairs :
                  \/ /\ Out[k].bunrui2 = p.zen
                     /\ Out[k].kingaku =
                           RMul(Num(Net(ReadRecords(df_zen_kyoutuu), p)),
                                RatioOf(Out[k].code, "haifuritsu"))
                  \/ /\ Out[k].bunrui2 = p.basho
                     /\ \E a \in Anchors :
                           /\ SameFamily(Out[k].code, a)
                           /\ Out[k].kingaku =
                                 RMul(Num(Net(ReadRecords(RowsOfAnchor(a)), p)),
                                      RatioOf(Out[k].code, "basho_haifuritsu"))
        /\ \A u \in 1..Len(UnreadRecords) :
              LET d == Stripped(merged_all.rows[UnreadRecords[u].idx])
                  final == [i \in 1..Len(final_df.rows) |->
                               Stripped(final_df.rows[i])]
                  normal == [i \in 1..Len(df_main_data) |->
                                Stripped(merged_all.rows[df_main_data[i].idx])]
              IN  /\ \A i \in 1..Len(df_main_data) :
                        df_main_data[i].idx # UnreadRecords[u].idx
                  /\ Occurrences(final, d) = Occurrences(normal, d)

\* a run allocated amounts and wrote its file after setting apart a
\* store-wide record without class2, a location-common record without
\* class2 and a location-common record of a department that is no anchor
C28_Witness ==
    /\ pc = "done"
    /\ Out # <<>>
    /\ \E i \in 1..Len(df_zen_kyoutuu) : df_zen_kyoutuu[i].bunrui2 \notin FourTags
    /\ \E i \in 1..Len(df_basho_kyoutuu) :
          /\ df_basho_kyoutuu[i].bunrui2 \notin FourTags
          /\ df_basho_kyoutuu[i].code \in Anchors
    /\ \E i \in 1..Len(df_basho_kyoutuu) :
          /\ df_basho_kyoutuu[i].bunrui2 \in FourTags
          /\ df_basho_kyoutuu[i].code \notin Anchors

====
